---- MODULE Spec2Model ----
(***************************************************************************)
(* Sideby Pass: the background script's per-tab video registry             *)
(* (videosByTab), its classifier and scorer, and the page-side navigation  *)
(* poll that invalidates it.                                               *)
(*                                                                         *)
(* JavaScript values are represented as follows.  Strings are TLA+         *)
(* strings; `undefined` and `null` are the two reserved strings below;     *)
(* a size is an integer and 0 stands for "no size" (the code stores        *)
(* `video.size || null` and only ever tests a size for truthiness, so a    *)
(* stored size is never 0); a tab id is an integer and 0 stands for a      *)
(* missing tab id (`!tabId` treats both alike).  A JavaScript Map is the   *)
(* sequence of its entries in insertion order.                             *)
(***************************************************************************)
EXTENDS Integers, Sequences, FiniteSets, TLC

VARIABLES
  videosByTab,   \* background: Map tabId -> Map url -> info
  now,           \* Date.now()
  response,      \* the GET_VIDEOS response being sent: [tabId, videos]
  fetches,       \* manifest fetches in flight: set of [url, tabId]
  location,      \* page: document.location.href of each tab
  lastUrl,       \* page watcher: lastUrl of each tab's document
  foundVideos,   \* page watcher: foundVideos of each tab's document
  clearMsgs,     \* CLEAR_VIDEOS messages in flight, per sender tab
  stale,         \* history: per tab, keys stored under an earlier location
  input,         \* a function under test: the arguments of the call
  output         \* ... and its return value once the call has returned

vars ==
  <<videosByTab, now, response, fetches, location, lastUrl, foundVideos, clearMsgs, stale,
    input, output>>

Undefined == "<undefined>"
Null == "<null>"
True == "<true>"

NoSize == 0
NoTab == 0

\* JavaScript truthiness of a string-valued field
Truthy(v) == v \notin {Undefined, Null, ""}

-----------------------------------------------------------------------------
(* String helpers: the String.prototype methods and the regular-expression *)
(* fragments the source uses.                                              *)

CharAt(s, i) == SubSeq(s, i, i)

Rest(s, i) == SubSeq(s, i, Len(s))

StartsWith(s, p) == Len(s) >= Len(p) /\ SubSeq(s, 1, Len(p)) = p

MatchAt(s, i, p) == i >= 1 /\ i + Len(p) - 1 <= Len(s) /\ SubSeq(s, i, i + Len(p) - 1) = p

Includes(s, p) == \E i \in 1..(Len(s) - Len(p) + 1) : MatchAt(s, i, p)

EndsWith(s, p) == Len(s) >= Len(p) /\ MatchAt(s, Len(s) - Len(p) + 1, p)

IsDigit(c) == c \in {"0", "1", "2", "3", "4", "5", "6", "7", "8", "9"}

DigitValue(c) ==
  CASE c = "0" -> 0 [] c = "1" -> 1 [] c = "2" -> 2 [] c = "3" -> 3
    [] c = "4" -> 4 [] c = "5" -> 5 [] c = "6" -> 6 [] c = "7" -> 7
    [] c = "8" -> 8 [] c = "9" -> 9

UpperCase ==
  {"A", "B", "C", "D", "E", "F", "G", "H", "I", "J", "K", "L", "M",
   "N", "O", "P", "Q", "R", "S", "T", "U", "V", "W", "X", "Y", "Z"}

LowerChar(c) ==
  IF c \notin UpperCase THEN c
  ELSE CASE c = "A" -> "a" [] c = "B" -> "b" [] c = "C" -> "c" [] c = "D" -> "d"
         [] c = "E" -> "e" [] c = "F" -> "f" [] c = "G" -> "g" [] c = "H" -> "h"
         [] c = "I" -> "i" [] c = "J" -> "j" [] c = "K" -> "k" [] c = "L" -> "l"
         [] c = "M" -> "m" [] c = "N" -> "n" [] c = "O" -> "o" [] c = "P" -> "p"
         [] c = "Q" -> "q" [] c = "R" -> "r" [] c = "S" -> "s" [] c = "T" -> "t"
         [] c = "U" -> "u" [] c = "V" -> "v" [] c = "W" -> "w" [] c = "X" -> "x"
         [] c = "Y" -> "y" [] c = "Z" -> "z"

RECURSIVE LowerFrom(_, _)
LowerFrom(s, i) ==
  IF i > Len(s) THEN "" ELSE LowerChar(CharAt(s, i)) \o LowerFrom(s, i + 1)

\* s.toLowerCase()
ToLowerCase(s) ==
  IF \A i \in 1..Len(s) : CharAt(s, i) \notin UpperCase THEN s ELSE LowerFrom(s, 1)

\* case-insensitive match of the lower-case literal p at position i
MatchAtCI(s, i, p) ==
  /\ i >= 1 /\ i + Len(p) - 1 <= Len(s)
  /\ LowerChar(CharAt(s, i)) = CharAt(p, 1)
  /\ ToLowerCase(SubSeq(s, i, i + Len(p) - 1)) = p

\* the position after the longest run of digits that starts at i (\d*)
RECURSIVE SkipDigits(_, _)
SkipDigits(s, i) ==
  IF i <= Len(s) /\ IsDigit(CharAt(s, i)) THEN SkipDigits(s, i + 1) ELSE i

\* parseInt(s): the value of the leading decimal digits; -1 stands for NaN
\* (no sign or leading blank occurs in a quality label or a header value here)
RECURSIVE ParseDigits(_, _, _)
ParseDigits(s, i, acc) ==
  IF i <= Len(s) /\ IsDigit(CharAt(s, i))
    THEN ParseDigits(s, i + 1, 10 * acc + DigitValue(CharAt(s, i)))
    ELSE acc

NaN == -1

parseInt(s) ==
  IF Len(s) >= 1 /\ IsDigit(CharAt(s, 1)) THEN ParseDigits(s, 1, 0) ELSE NaN

-----------------------------------------------------------------------------
(* Configuration                                                           *)

MIN_VIDEO_SIZE_BYTES == 500000
MAX_RESULTS == 5
ENTRY_TTL_MS == 600000

HIGH_CONFIDENCE_PRIORITY == 75

\* SOURCE_PRIORITY[source]; 0 stands for `undefined` (no such key): every use
\* is either `|| 0`, a truthiness test or `>= 75`, which treat the two alike
SOURCE_PRIORITY(source) ==
  CASE source = "instagram" -> 100
    [] source = "twitter" -> 100
    [] source = "vimeo" -> 100
    [] source = "tiktok" -> 100
    [] source = "instagram-json" -> 95
    [] source = "api" -> 90
    [] source = "hls" -> 85
    [] source = "og:video" -> 80
    [] source = "dom-playing" -> 75
    [] source = "dom" -> 50
    [] source = "webRequest" -> 40
    [] OTHER -> 0

-----------------------------------------------------------------------------
(* URL utilities                                                           *)

\* s.replace(/<key>\d*<one optional &, if eatAmp>/gi, repl): matches are found
\* left to right in the input and never in the text already produced
RECURSIVE ReplaceParam(_, _, _, _)
ReplaceParam(s, key, eatAmp, repl) ==
  LET matches == {i \in 1..Len(s) : MatchAtCI(s, i, key)}
  IN  IF matches = {} THEN s
      ELSE LET i == CHOOSE m \in matches : \A n \in matches : m <= n
               d == SkipDigits(s, i + Len(key))
               e == IF eatAmp /\ MatchAt(s, d, "&") THEN d + 1 ELSE d
           IN  SubSeq(s, 1, i - 1) \o repl \o ReplaceParam(Rest(s, e), key, eatAmp, repl)

cleanByteRangeUrl(url) ==
  LET s1 == ReplaceParam(url, "&bytestart=", FALSE, "")
      s2 == ReplaceParam(s1, "&byteend=", FALSE, "")
      s3 == ReplaceParam(s2, "?bytestart=", TRUE, "?")
  IN  IF EndsWith(s3, "?") THEN SubSeq(s3, 1, Len(s3) - 1) ELSE s3

-----------------------------------------------------------------------------
(* Video filtering                                                         *)

\* /\.<ext>(\?|#|$)/ on s
HasExtension(s, ext) ==
  \E i \in 1..Len(s) :
    /\ MatchAt(s, i, "." \o ext)
    /\ LET j == i + Len(ext) + 1
       IN  j > Len(s) \/ CharAt(s, j) \in {"?", "#"}

VIDEO_EXTENSIONS(s) ==
  \E ext \in {"mp4", "m4v", "mov", "m3u8"} : HasExtension(ToLowerCase(s), ext)

SEGMENT_EXTENSIONS(s) ==
  \E ext \in {"ts", "m4s", "m4a"} : HasExtension(ToLowerCase(s), ext)

VIDEO_CONTENT_TYPES(ct) ==
  \E p \in {"video/", "application/vnd.apple.mpegurl", "application/x-mpegurl"} :
    StartsWith(ToLowerCase(ct), p)

IsSep(c) == c \in {"_", "-", "/"}

IsSepNoSlash(c) == c \in {"_", "-"}

\* one or more digits start at i (\d+)
DigitsAt(s, i) == i <= Len(s) /\ IsDigit(CharAt(s, i))

SEGMENT_PATTERNS(s) ==
  \/ \E i \in 1..Len(s) :      \* /[_\-/](seg|segment|frag|fragment|chunk|part)[_\-]?\d+/i
       /\ IsSep(CharAt(s, i))
       /\ \E w \in {"seg", "segment", "frag", "fragment", "chunk", "part"} :
            /\ MatchAt(s, i + 1, w)
            /\ LET j == i + 1 + Len(w)
               IN  \/ DigitsAt(s, j)
                   \/ j <= Len(s) /\ IsSepNoSlash(CharAt(s, j)) /\ DigitsAt(s, j + 1)
  \/ \E i \in 1..Len(s) :      \* /[_\-/]init[_\-]?\d*\.(mp4|m4s)/i
       /\ IsSep(CharAt(s, i))
       /\ MatchAt(s, i + 1, "init")
       /\ \E j \in {i + 5} \cup {k \in {i + 6} : k - 1 <= Len(s) /\ IsSepNoSlash(CharAt(s, i + 5))} :
            \E e \in {".mp4", ".m4s"} : MatchAt(s, SkipDigits(s, j), e)
  \/ \E i \in 1..Len(s) :      \* /[&?]range=\d+[_\-]\d+/i
       /\ CharAt(s, i) \in {"&", "?"}
       /\ MatchAt(s, i + 1, "range=")
       /\ DigitsAt(s, i + 7)
       /\ LET j == SkipDigits(s, i + 7)
          IN  j <= Len(s) /\ IsSepNoSlash(CharAt(s, j)) /\ DigitsAt(s, j + 1)
  \/ \E i \in 1..Len(s) :      \* /\/range\/\d+/i
       MatchAt(s, i, "/range/") /\ DigitsAt(s, i + 7)
  \/ Includes(s, "&bytestart=") \/ Includes(s, "?bytestart=")   \* /[&?]bytestart=/i
  \/ Includes(s, "&byteend=") \/ Includes(s, "?byteend=")       \* /[&?]byteend=/i

\* (the two extension patterns left out)
AUDIO_ONLY_PATTERNS_namesOnly(s) ==
  \/ \E i \in 1..Len(s) :
       /\ IsSep(CharAt(s, i))
       /\ MatchAt(s, i + 1, "audio")
       /\ i + 6 <= Len(s) /\ IsSep(CharAt(s, i + 6))
  \/ Includes(s, "audio_only") \/ Includes(s, "audio-only")

AUDIO_ONLY_PATTERNS(s) ==
  \/ \E i \in 1..Len(s) :      \* /[_\-/]audio[_\-/]/i
       /\ IsSep(CharAt(s, i))
       /\ MatchAt(s, i + 1, "audio")
       /\ i + 6 <= Len(s) /\ IsSep(CharAt(s, i + 6))
  \/ Includes(s, "audio_only") \/ Includes(s, "audio-only")     \* /audio[_\-]only/i
  \/ HasExtension(s, "m4a")
  \/ HasExtension(s, "aac")

\* isPlayableVideo with the size filter written `!size || size < MIN`
isPlayableVideo_sizeRequired(url, contentType, size, source) ==
  LET lower == ToLowerCase(url)
      hasVideoExt == VIDEO_EXTENSIONS(lower)
      hasSegmentExt == SEGMENT_EXTENSIONS(lower)
      hasVideoContentType == Truthy(contentType) /\ VIDEO_CONTENT_TYPES(contentType)
  IN  IF Truthy(source) /\ SOURCE_PRIORITY(source) >= HIGH_CONFIDENCE_PRIORITY THEN TRUE
      ELSE IF \/ Includes(lower, "youtube.com/watch")
              \/ Includes(lower, "youtube.com/shorts/")
              \/ Includes(lower, "youtu.be/") THEN TRUE
      ELSE IF HasExtension(lower, "webm") THEN FALSE
      ELSE IF HasExtension(lower, "m4s") THEN FALSE
      ELSE IF /\ ~hasVideoExt /\ ~hasVideoContentType
              /\ ~(hasSegmentExt /\ size # NoSize /\ size > MIN_VIDEO_SIZE_BYTES * 2) THEN FALSE
      ELSE IF SEGMENT_PATTERNS(lower) THEN FALSE
      ELSE IF AUDIO_ONLY_PATTERNS(lower) THEN FALSE
      ELSE IF size = NoSize \/ size < MIN_VIDEO_SIZE_BYTES THEN FALSE
      ELSE TRUE

isPlayableVideo(url, contentType, size, source) ==
  LET lower == ToLowerCase(url)
      hasVideoExt == VIDEO_EXTENSIONS(lower)
      hasSegmentExt == SEGMENT_EXTENSIONS(lower)
      hasVideoContentType == Truthy(contentType) /\ VIDEO_CONTENT_TYPES(contentType)
  IN  IF Truthy(source) /\ SOURCE_PRIORITY(source) >= HIGH_CONFIDENCE_PRIORITY THEN TRUE
      ELSE IF \/ Includes(lower, "youtube.com/watch")
              \/ Includes(lower, "youtube.com/shorts/")
              \/ Includes(lower, "youtu.be/") THEN TRUE
      ELSE IF HasExtension(lower, "webm") THEN FALSE
      ELSE IF HasExtension(lower, "m4s") THEN FALSE
      ELSE IF /\ ~hasVideoExt /\ ~hasVideoContentType
              /\ ~(hasSegmentExt /\ size # NoSize /\ size > MIN_VIDEO_SIZE_BYTES * 2) THEN FALSE
      ELSE IF SEGMENT_PATTERNS(lower) THEN FALSE
      ELSE IF AUDIO_ONLY_PATTERNS(lower) THEN FALSE
      ELSE IF size # NoSize /\ size < MIN_VIDEO_SIZE_BYTES THEN FALSE
      ELSE TRUE

-----------------------------------------------------------------------------
(* Video scoring                                                           *)

\* (the source bonus given in tiers, as the size and quality bonuses are)
scoreVideo_sourceTiers(url, size, source, quality) ==
  LET lower == ToLowerCase(url)
      q == IF Truthy(quality) THEN parseInt(quality) ELSE NaN
      p == IF Truthy(source) THEN SOURCE_PRIORITY(source) ELSE 0
  IN  10
      + (IF p >= 75 THEN 100 ELSE IF p >= 50 THEN 50 ELSE IF p > 0 THEN 40 ELSE 0)
      + (IF HasExtension(lower, "mp4") THEN 20
         ELSE IF HasExtension(lower, "m3u8") THEN 15 ELSE 0)
      + (IF size = NoSize THEN 0
         ELSE IF size > 50000000 THEN 30
         ELSE IF size > 10000000 THEN 20
         ELSE IF size > 5000000 THEN 10 ELSE 0)
      + (IF q >= 1080 THEN 15 ELSE IF q >= 720 THEN 10 ELSE IF q >= 480 THEN 5 ELSE 0)
      + (IF \E k \in {"1080", "1920", "hd", "high"} : Includes(lower, k) THEN 5 ELSE 0)
      + (IF Includes(lower, "720") THEN 3 ELSE 0)

scoreVideo(url, size, source, quality) ==
  LET lower == ToLowerCase(url)
      q == IF Truthy(quality) THEN parseInt(quality) ELSE NaN
  IN  10
      + (IF Truthy(source) THEN SOURCE_PRIORITY(source) ELSE 0)
      + (IF HasExtension(lower, "mp4") THEN 20
         ELSE IF HasExtension(lower, "m3u8") THEN 15 ELSE 0)
      + (IF size = NoSize THEN 0
         ELSE IF size > 50000000 THEN 30
         ELSE IF size > 10000000 THEN 20
         ELSE IF size > 5000000 THEN 10 ELSE 0)
      + (IF q >= 1080 THEN 15 ELSE IF q >= 720 THEN 10 ELSE IF q >= 480 THEN 5 ELSE 0)
      + (IF \E k \in {"1080", "1920", "hd", "high"} : Includes(lower, k) THEN 5 ELSE 0)
      + (IF Includes(lower, "720") THEN 3 ELSE 0)

-----------------------------------------------------------------------------
(* A JavaScript Map as the sequence of its entries in insertion order; an  *)
(* entry of a tab's map is the key (url) together with the info object.    *)

MapHas(m, key) == \E i \in 1..Len(m) : m[i].url = key

MapGet(m, key) == m[CHOOSE i \in 1..Len(m) : m[i].url = key]

MapSet(m, key, info) ==
  IF MapHas(m, key)
    THEN [i \in 1..Len(m) |-> IF m[i].url = key THEN info ELSE m[i]]
    ELSE Append(m, info)

MapKeys(m) == {m[i].url : i \in 1..Len(m)}

\* videosByTab.set(tabId, m)
TabSet(store, tabId, m) ==
  [t \in DOMAIN store \cup {tabId} |-> IF t = tabId THEN m ELSE store[t]]

\* videosByTab.delete(tabId)
TabDelete(store, tabId) == [t \in DOMAIN store \ {tabId} |-> store[t]]

\* JavaScript truthiness of a number
TruthyNum(n) == n # 0 /\ n # NaN

-----------------------------------------------------------------------------
(* Video storage                                                           *)

\* the key a candidate is stored under
CleanUrl_raw(video) == video.url

CleanUrl(video) == cleanByteRangeUrl(video.url)

\* whether the incoming source replaces the existing one
HigherPriority_orEqual(newPriority, existingPriority) == newPriority >= existingPriority

HigherPriority(newPriority, existingPriority) == newPriority > existingPriority

\* the info object of a URL seen for the first time
NewEntry(cleanUrl, video, t) ==
  [url |-> cleanUrl,
   size |-> IF TruthyNum(video.size) THEN video.size ELSE NoSize,
   contentType |-> IF Truthy(video.contentType) THEN video.contentType ELSE Null,
   timestamp |-> t,
   source |-> video.source,
   quality |-> video.quality,
   title |-> video.title,
   playlist |-> video.playlist]

UpdateSource(existing, video) ==
  IF HigherPriority(SOURCE_PRIORITY(video.source), SOURCE_PRIORITY(existing.source))
    THEN [existing EXCEPT !.source = video.source] ELSE existing

UpdateQuality(existing, video) ==
  IF Truthy(video.quality) /\ ~Truthy(existing.quality)
    THEN [existing EXCEPT !.quality = video.quality] ELSE existing

UpdateTitle(existing, video) ==
  IF Truthy(video.title) /\ ~Truthy(existing.title)
    THEN [existing EXCEPT !.title = video.title] ELSE existing

\* the else-branch: the three in-place updates of the existing info object
UpdateExisting(existing, video) ==
  UpdateTitle(UpdateQuality(UpdateSource(existing, video), video), video)

\* videosByTab.get(tabId) once the slot exists
TabVideos(store, tabId) == IF tabId \in DOMAIN store THEN store[tabId] ELSE <<>>

StoreVideo(store, tabId, tabVideos, cleanUrl, video, t) ==
  TabSet(store, tabId,
    MapSet(tabVideos, cleanUrl,
      IF ~MapHas(tabVideos, cleanUrl)
        THEN NewEntry(cleanUrl, video, t)
        ELSE UpdateExisting(MapGet(tabVideos, cleanUrl), video)))

addVideoToTab(store, tabId, video, t) ==
  IF tabId = NoTab \/ ~Truthy(video.url) THEN store
  ELSE IF StartsWith(video.url, "blob:") \/ StartsWith(video.url, "data:") THEN store
  ELSE StoreVideo(store, tabId, TabVideos(store, tabId), CleanUrl(video), video, t)

-----------------------------------------------------------------------------
(* Video retrieval                                                         *)

\* (ties broken by the oldest timestamp)
CompareVideos_oldestFirst(a, b) ==
  IF b.score # a.score THEN b.score - a.score ELSE a.timestamp - b.timestamp

\* the comparator of results.sort: negative when a comes first
CompareVideos(a, b) ==
  IF b.score # a.score THEN b.score - a.score ELSE b.timestamp - a.timestamp

\* Array.prototype.sort is stable: x goes after every element that does not
\* come after it
InsertVideo(sorted, x) ==
  LET k == Cardinality({i \in 1..Len(sorted) : CompareVideos(sorted[i], x) <= 0})
  IN  SubSeq(sorted, 1, k) \o <<x>> \o SubSeq(sorted, k + 1, Len(sorted))

RECURSIVE SortVideos(_)
SortVideos(s) ==
  IF s = <<>> THEN <<>>
  ELSE InsertVideo(SortVideos(SubSeq(s, 1, Len(s) - 1)), s[Len(s)])

Slice(s, n) == SubSeq(s, 1, IF Len(s) < n THEN Len(s) ELSE n)

IsExpired(info, t) == t - info.timestamp > ENTRY_TTL_MS

IsPlayableEntry(info) == isPlayableVideo(info.url, info.contentType, info.size, info.source)

\* (the playability test made before the expiry test)
UnexpiredEntries_afterPlayable(tabVideos, t) ==
  SelectSeq(tabVideos, LAMBDA info : ~IsPlayableEntry(info) \/ ~IsExpired(info, t))

\* the entries the loop leaves in the map: it deletes the expired ones
UnexpiredEntries(tabVideos, t) == SelectSeq(tabVideos, LAMBDA info : ~IsExpired(info, t))

VideoView(info) ==
  [url |-> info.url,
   size |-> info.size,
   score |-> scoreVideo(info.url, info.size, info.source, info.quality),
   timestamp |-> info.timestamp,
   quality |-> info.quality,
   source |-> info.source,
   title |-> info.title,
   playlist |-> info.playlist]

RECURSIVE MapVideoView(_)
MapVideoView(s) ==
  IF s = <<>> THEN <<>> ELSE <<VideoView(Head(s))>> \o MapVideoView(Tail(s))

\* (the slot looked up with get-or-create)
getVideosForTab_createsSlot(store, tabId, t) ==
  [videos |-> Slice(SortVideos(MapVideoView(
                SelectSeq(TabVideos(store, tabId),
                          LAMBDA info : ~IsExpired(info, t) /\ IsPlayableEntry(info)))), MAX_RESULTS),
   store |-> TabSet(store, tabId, UnexpiredEntries(TabVideos(store, tabId), t))]

\* the result list and the store after the call (expired entries deleted)
getVideosForTab(store, tabId, t) ==
  IF tabId \notin DOMAIN store THEN [videos |-> <<>>, store |-> store]
  ELSE
    LET tabVideos == store[tabId]
        kept == UnexpiredEntries(tabVideos, t)
        playable == SelectSeq(kept, LAMBDA info : ~IsExpired(info, t) /\ IsPlayableEntry(info))
        results == SortVideos(MapVideoView(playable))
    IN  [videos |-> Slice(results, MAX_RESULTS),
         store |-> TabSet(store, tabId, kept)]

\* (every tab's map cleared)
clearVideos_everyTab(store, tabId) ==
  IF tabId # NoTab /\ tabId \in DOMAIN store THEN [t \in DOMAIN store |-> <<>>] ELSE store

\* the CLEAR_VIDEOS handler's effect on the store
clearVideos(store, tabId) ==
  IF tabId # NoTab /\ tabId \in DOMAIN store THEN TabSet(store, tabId, <<>>) ELSE store

\* (the tab's map emptied, its slot kept)
removeTab_keepsSlot(store, tabId) ==
  IF tabId \in DOMAIN store THEN TabSet(store, tabId, <<>>) ELSE store

\* the chrome.tabs.onRemoved listener's effect on the store
removeTab(store, tabId) == TabDelete(store, tabId)

-----------------------------------------------------------------------------
(* The background script's listeners, as functions of the store            *)

\* a candidate object; a property that is not set reads as undefined
Video(url, size, contentType, source, quality, title, playlist) ==
  [url |-> url, size |-> size, contentType |-> contentType, source |-> source,
   quality |-> quality, title |-> title, playlist |-> playlist]

HLS_CONTENT_TYPES ==
  {"audio/mpegurl", "application/mpegurl", "application/x-mpegurl", "audio/x-mpegurl",
   "application/vnd.apple.mpegurl", "application/vnd.apple.mpegurl.audio"}

\* details = [tabId, url, contentType, contentLength]: the two response
\* headers are the header's value, or Undefined when the header is absent
IsManifestResponse(details) ==
  LET contentType == IF Truthy(details.contentType) THEN details.contentType ELSE ""
  IN  \/ \E ct \in HLS_CONTENT_TYPES : Includes(ToLowerCase(contentType), ct)
      \/ Includes(details.url, ".m3u8")

IsObserved(details) ==
  /\ details.tabId # NoTab /\ details.tabId >= 0
  /\ Truthy(details.url)
  /\ ~StartsWith(details.url, "data:") /\ ~StartsWith(details.url, "blob:")

\* the store after the chrome.webRequest.onCompleted listener has run
onCompleted(store, details, t) ==
  LET contentType == IF Truthy(details.contentType) THEN details.contentType ELSE ""
      size == IF Truthy(details.contentLength) THEN parseInt(details.contentLength) ELSE NoSize
  IN  IF ~IsObserved(details) THEN store
      ELSE IF IsManifestResponse(details)
        THEN addVideoToTab(store, details.tabId,
               Video(details.url, NoSize, contentType, "hls", Undefined, Undefined, True), t)
      ELSE IF ~(VIDEO_EXTENSIONS(details.url) \/ SEGMENT_EXTENSIONS(details.url))
              /\ ~VIDEO_CONTENT_TYPES(contentType) THEN store
      ELSE addVideoToTab(store, details.tabId,
             Video(details.url, size, contentType, "webRequest", Undefined, Undefined, Undefined), t)

\* the ADD_VIDEO branch of chrome.runtime.onMessage; senderTab = sender?.tab?.id
onAddVideo(store, message, senderTab, t) ==
  LET tabId == IF message.tabId # NoTab THEN message.tabId ELSE senderTab
  IN  addVideoToTab(store, tabId,
        Video(message.url, NoSize, Undefined, message.source, message.quality,
              message.title, message.playlist), t)

-----------------------------------------------------------------------------
(* M3U8 parsing                                                            *)

IsSpace(c) == c \in {" ", "\n", "\r", "\t"}

RECURSIVE TrimStart(_)
TrimStart(s) ==
  IF s # "" /\ IsSpace(CharAt(s, 1)) THEN TrimStart(Rest(s, 2)) ELSE s

RECURSIVE TrimEnd(_)
TrimEnd(s) ==
  IF s # "" /\ IsSpace(CharAt(s, Len(s))) THEN TrimEnd(SubSeq(s, 1, Len(s) - 1)) ELSE s

Trim(s) == TrimEnd(TrimStart(s))

\* s.indexOf(p) + 1: 0 when p does not occur
IndexOf(s, p) ==
  IF Includes(s, p)
    THEN CHOOSE i \in 1..Len(s) : MatchAt(s, i, p) /\ \A j \in 1..(i - 1) : ~MatchAt(s, j, p)
    ELSE 0

RECURSIVE Split(_, _)
Split(s, sep) ==
  LET i == IndexOf(s, sep)
  IN  IF i = 0 THEN <<s>>
      ELSE <<SubSeq(s, 1, i - 1)>> \o Split(Rest(s, i + Len(sep)), sep)

\* /RESOLUTION=(\d+)x(\d+)/ matches at position i of s
ResolutionAt(s, i) ==
  /\ MatchAt(s, i, "RESOLUTION=")
  /\ DigitsAt(s, i + 11)
  /\ LET x == SkipDigits(s, i + 11)
     IN  MatchAt(s, x, "x") /\ DigitsAt(s, x + 1)

\* `${Math.min(parseInt(match[1]), parseInt(match[2]))}p` for the first match
ResolutionQuality(s) ==
  LET i == CHOOSE k \in 1..Len(s) : ResolutionAt(s, k) /\ \A j \in 1..(k - 1) : ~ResolutionAt(s, j)
      w == parseInt(Rest(s, i + 11))
      h == parseInt(Rest(s, SkipDigits(s, i + 11) + 1))
  IN  ToString(IF w < h THEN w ELSE h) \o "p"

\* the inner loop over the lines of one #EXT-X-STREAM-INF block
RECURSIVE ScanLines(_, _, _)
ScanLines(lines, quality, variantUrl) ==
  IF lines = <<>> THEN [quality |-> quality, url |-> variantUrl]
  ELSE
    LET trimmed == Trim(Head(lines))
        q == IF Includes(trimmed, "RESOLUTION=") /\ \E k \in 1..Len(trimmed) : ResolutionAt(trimmed, k)
               THEN ResolutionQuality(trimmed) ELSE quality
        u == IF /\ trimmed # ""
                /\ ~StartsWith(trimmed, "#")
                /\ \/ Includes(trimmed, ".m3u8")
                   \/ StartsWith(trimmed, "http://") \/ StartsWith(trimmed, "https://")
               THEN trimmed ELSE variantUrl
    IN  ScanLines(Tail(lines), q, u)

\* url.match(/(.+\/)[^\/]+\.m3u8/i): group 1, or Null when there is no match.
\* The match starts at the first character and `.+` is greedy, so group 1 ends
\* at the last "/" (not the first character) that is followed by one or more
\* non-slash characters and then ".m3u8"
BaseSlash(url, j) ==
  /\ j >= 2 /\ CharAt(url, j) = "/"
  /\ \E m \in 1..Len(url) :
       /\ \A k \in (j + 1)..(j + m) : k <= Len(url) /\ CharAt(url, k) # "/"
       /\ MatchAtCI(url, j + m + 1, ".m3u8")

BaseMatch(url) ==
  IF \E j \in 1..Len(url) : BaseSlash(url, j)
    THEN LET j == CHOOSE k \in 1..Len(url) :
                    BaseSlash(url, k) /\ \A l \in (k + 1)..Len(url) : ~BaseSlash(url, l)
         IN  SubSeq(url, 1, j)
    ELSE Null

\* the variant of one block, made absolute; Null url when the block has none
ParseSegment(segment, url) ==
  LET found == ScanLines(Split(segment, "\n"), Null, Null)
      base == BaseMatch(url)
  IN  IF found.url = Null THEN found
      ELSE IF ~StartsWith(found.url, "http") /\ base # Null
        THEN [found EXCEPT !.url = base \o found.url]
      ELSE found

RECURSIVE ParseSegments(_, _)
ParseSegments(segments, url) ==
  IF segments = <<>> THEN <<>>
  ELSE
    LET v == IF Trim(Head(segments)) = "" THEN [quality |-> Null, url |-> Null]
             ELSE ParseSegment(Head(segments), url)
    IN  (IF v.url = Null THEN <<>> ELSE <<v>>) \o ParseSegments(Tail(segments), url)

\* parseInt(v.quality) || 0
QualityRank(v) ==
  LET q == IF v.quality = Null THEN NaN ELSE parseInt(v.quality)
  IN  IF TruthyNum(q) THEN q ELSE 0

InsertVariant(sorted, x) ==
  LET k == Cardinality({i \in 1..Len(sorted) : QualityRank(x) - QualityRank(sorted[i]) <= 0})
  IN  SubSeq(sorted, 1, k) \o <<x>> \o SubSeq(sorted, k + 1, Len(sorted))

RECURSIVE SortVariants(_)
SortVariants(s) ==
  IF s = <<>> THEN <<>>
  ELSE InsertVariant(SortVariants(SubSeq(s, 1, Len(s) - 1)), s[Len(s)])

MAX_VARIANTS == 3

NetworkError == "<network error>"

\* ParseM3U8 without the test for the #EXTM3U signature
ParseM3U8_noSignature(text, url) ==
  IF text = NetworkError THEN <<>>
  ELSE IF ~Includes(text, "#EXT-X-STREAM-INF:") THEN <<>>
  ELSE Slice(SortVariants(ParseSegments(Split(text, "#EXT-X-STREAM-INF:"), url)), MAX_VARIANTS)

\* the variants fetchAndParseM3U8 adds for a response body, best first
ParseM3U8(text, url) ==
  IF text = NetworkError \/ ~Includes(text, "#EXTM3U") THEN <<>>
  ELSE IF ~Includes(text, "#EXT-X-STREAM-INF:") THEN <<>>
  ELSE Slice(SortVariants(ParseSegments(Split(text, "#EXT-X-STREAM-INF:"), url)), MAX_VARIANTS)

RECURSIVE AddVariants(_, _, _, _)
AddVariants(store, tabId, variants, t) ==
  IF variants = <<>> THEN store
  ELSE AddVariants(
         addVideoToTab(store, tabId,
           Video(Head(variants).url, NoSize, Undefined, "hls", Head(variants).quality, Null, True), t),
         tabId, Tail(variants), t)

\* the store after fetchAndParseM3U8(url, tabId) has resumed with `text`
fetchAndParseM3U8(store, url, tabId, text, t) ==
  AddVariants(store, tabId, ParseM3U8(text, url), t)

-----------------------------------------------------------------------------
(* The environment: tabs, the clock, and what the adapters observe         *)

Tabs == {1, 2}

\* the instants at which something happens: an entry stored at 0 is still
\* within its TTL at ENTRY_TTL_MS and past it one millisecond later
ClockValues == {0, ENTRY_TTL_MS, ENTRY_TTL_MS + 1}

Message(tabId, url, source, quality, title, playlist) ==
  [tabId |-> tabId, url |-> url, source |-> source, quality |-> quality,
   title |-> title, playlist |-> playlist]

Details(tabId, url, contentType, contentLength) ==
  [tabId |-> tabId, url |-> url, contentType |-> contentType, contentLength |-> contentLength]

\* ADD_VIDEO messages of the content script (sendVideo) of the page in tab 1:
\* a DOM scan and two site parsers name the same resource, one of them with
\* byte-range parameters; then a blob: source, a message without url, and a
\* page-supplied string that only becomes a blob: URL once cleaned
Messages ==
  { Message(NoTab, "v.mp4", "dom", Undefined, "", Undefined),
    Message(NoTab, "v.mp4?bytestart=5", "instagram", "720p", "Reel", Undefined),
    Message(NoTab, "v.mp4", "twitter", "1080p", "Tweet", Undefined),
    Message(NoTab, "blob:x", "dom", Undefined, "", Undefined),
    Message(NoTab, Undefined, "dom", Undefined, "", Undefined),
    Message(NoTab, "b&bytestart=lob:x", "api", Undefined, "", Undefined) }

\* completed network exchanges: a media file with its length (in either tab),
\* a .webm and a script (tab 1), and one request made outside any tab
WebRequests ==
  { Details(t, "v.mp4", "video/mp4", "8000000") : t \in Tabs }
  \cup { Details(1, "a.webm", "video/webm", Undefined),
         Details(1, "x.js", "text/javascript", "100"),
         Details(-1, "v.mp4", "video/mp4", "8000000") }

-----------------------------------------------------------------------------
(* State                                                                   *)

\* `evicted` records the keys the call deleted as expired
NoResponse == [tabId |-> NoTab, videos |-> <<>>, sent |-> FALSE, evicted |-> {}]

Keys(store, tabId) == IF tabId \in DOMAIN store THEN MapKeys(store[tabId]) ELSE {}

\* an entry stays "stored under an earlier location" until it is deleted or
\* the resource is reported again (reported = the urls merged for tabId)
StaleAfter(store, tabId, reported) ==
  [t \in Tabs |->
     IF stale[t] = {} THEN {}
     ELSE (stale[t] \cap Keys(store, t))
            \ (IF t = tabId THEN {cleanByteRangeUrl(u) : u \in reported} ELSE {})]

\* no call is under test
NoCall == [fn |-> "none"]

Pending == [done |-> FALSE]

\* the extension after installation: nothing stored, every page at its first
\* location
Installed ==
  /\ videosByTab = <<>>
  /\ now = 0
  /\ response = NoResponse
  /\ fetches = {}
  /\ location = [t \in Tabs |-> 0]
  /\ lastUrl = [t \in Tabs |-> 0]
  /\ foundVideos = [t \in Tabs |-> {}]
  /\ clearMsgs = [t \in Tabs |-> 0]
  /\ stale = [t \in Tabs |-> {}]

Init == Installed /\ input = NoCall /\ output = Pending

PageVars == <<location, lastUrl, foundVideos, clearMsgs>>

CallVars == <<input, output>>

-----------------------------------------------------------------------------
(* Actions of the background script                                        *)

\* chrome.webRequest.onCompleted: the listener up to its return; a manifest
\* fetch it starts stays in flight
WebRequestCompleted(details) ==
  /\ videosByTab' = onCompleted(videosByTab, details, now)
  /\ fetches' = IF IsObserved(details) /\ IsManifestResponse(details)
                  THEN fetches \cup {[url |-> details.url, tabId |-> details.tabId]}
                  ELSE fetches
  /\ stale' = StaleAfter(videosByTab', details.tabId, {details.url} \ {Undefined})
  /\ response' = NoResponse
  /\ UNCHANGED <<now, PageVars, CallVars>>

\* fetchAndParseM3U8 resumes with the response body (or the fetch has failed);
\* input and output keep the call and the variants it added
FetchSettled(f, text) ==
  /\ f \in fetches
  /\ fetches' = fetches \ {f}
  /\ videosByTab' = fetchAndParseM3U8(videosByTab, f.url, f.tabId, text, now)
  /\ stale' = StaleAfter(videosByTab', f.tabId,
                {ParseM3U8(text, f.url)[i].url : i \in 1..Len(ParseM3U8(text, f.url))})
  /\ response' = NoResponse
  /\ input' = [fn |-> "fetchAndParseM3U8", url |-> f.url, tabId |-> f.tabId, text |-> text]
  /\ output' = [done |-> TRUE, value |-> ParseM3U8(text, f.url)]
  /\ UNCHANGED <<now, PageVars>>

\* chrome.runtime.onMessage, ADD_VIDEO
AddVideoMessage(message, senderTab) ==
  /\ videosByTab' = onAddVideo(videosByTab, message, senderTab, now)
  /\ stale' = StaleAfter(videosByTab',
                IF message.tabId # NoTab THEN message.tabId ELSE senderTab,
                {message.url} \ {Undefined})
  /\ response' = NoResponse
  /\ UNCHANGED <<now, fetches, PageVars, CallVars>>

\* chrome.runtime.onMessage, GET_VIDEOS (sent by the popup for message.tabId)
GetVideosMessage(tabId) ==
  LET r == getVideosForTab(videosByTab, tabId, now)
  IN  /\ videosByTab' = r.store
      /\ response' = [tabId |-> tabId, videos |-> r.videos, sent |-> TRUE,
                       evicted |-> Keys(videosByTab, tabId) \ Keys(r.store, tabId)]
      /\ stale' = StaleAfter(videosByTab', NoTab, {})
      /\ UNCHANGED <<now, fetches, PageVars, CallVars>>

\* chrome.runtime.onMessage, CLEAR_VIDEOS: the handler itself
HandleClearVideos(senderTab) ==
  /\ videosByTab' = clearVideos(videosByTab, senderTab)
  /\ stale' = StaleAfter(videosByTab', NoTab, {})
  /\ response' = NoResponse
  /\ UNCHANGED <<now, fetches, CallVars>>

\* a content script sends CLEAR_VIDEOS (seen from the background script alone)
ClearVideosMessage(senderTab) ==
  /\ HandleClearVideos(senderTab)
  /\ UNCHANGED PageVars

\* chrome.tabs.onRemoved
TabRemoved(tabId) ==
  /\ videosByTab' = removeTab(videosByTab, tabId)
  /\ stale' = StaleAfter(videosByTab', NoTab, {})
  /\ response' = NoResponse
  /\ UNCHANGED <<now, fetches, PageVars, CallVars>>

\* time passes
Tick ==
  /\ \E t \in ClockValues : t > now /\ now' = t
  /\ response' = NoResponse
  /\ UNCHANGED <<videosByTab, fetches, stale, PageVars, CallVars>>

Next ==
  \/ \E details \in WebRequests : WebRequestCompleted(details)
  \/ \E message \in Messages : AddVideoMessage(message, 1)
  \/ \E tabId \in Tabs \cup {NoTab} : GetVideosMessage(tabId)
  \/ \E senderTab \in Tabs \cup {NoTab} : ClearVideosMessage(senderTab)
  \/ \E tabId \in Tabs : TabRemoved(tabId)
  \/ Tick

Spec == Init /\ [][Next]_vars

-----------------------------------------------------------------------------
(* Properties of merge (addVideoToTab)                                     *)

\* the candidate objects the listeners pass to addVideoToTab for the
\* messages and network exchanges above
Candidates ==
  { Video(m.url, NoSize, Undefined, m.source, m.quality, m.title, m.playlist) : m \in Messages }
  \cup { Video(d.url, IF Truthy(d.contentLength) THEN parseInt(d.contentLength) ELSE NoSize,
               d.contentType, "webRequest", Undefined, Undefined, Undefined) : d \in WebRequests }

Mergeable(v) ==
  Truthy(v.url) /\ ~StartsWith(v.url, "blob:") /\ ~StartsWith(v.url, "data:")

MergedFields(e) == <<e.source, e.quality, e.title, e.size, e.contentType, e.playlist>>

\* C1: merge is commutative: two candidates with the same normalized URL,
\* merged into the same context in either order, leave the same entry
\* (source, quality, title, size, contentType, playlist).
C1_MergeCommutative ==
  \A t \in Tabs : \A a, b \in Candidates :
    (Mergeable(a) /\ Mergeable(b) /\ cleanByteRangeUrl(a.url) = cleanByteRangeUrl(b.url)) =>
      LET k == cleanByteRangeUrl(a.url)
          ab == addVideoToTab(addVideoToTab(videosByTab, t, a, now), t, b, now)
          ba == addVideoToTab(addVideoToTab(videosByTab, t, b, now), t, a, now)
      IN  MergedFields(MapGet(ab[t], k)) = MergedFields(MapGet(ba[t], k))

\* C2: end to end: after {dom, v.mp4, size 200000} and then {webRequest,
\* v.mp4, size 8000000, video/mp4} are merged into a context that has not seen
\* v.mp4, a query returns exactly one entry for v.mp4, with size 8000000.
C2_EndToEndMerge ==
  \A t \in Tabs :
    "v.mp4" \notin Keys(videosByTab, t) =>
      LET s1 == addVideoToTab(videosByTab, t,
                  Video("v.mp4", 200000, Undefined, "dom", Undefined, Undefined, Undefined), now)
          s2 == addVideoToTab(s1, t,
                  Video("v.mp4", 8000000, "video/mp4", "webRequest", Undefined, Undefined, Undefined), now)
          videos == getVideosForTab(s2, t, now).videos
          hits == {i \in 1..Len(videos) : videos[i].url = "v.mp4"}
      IN  Cardinality(hits) = 1 /\ \A i \in hits : videos[i].size = 8000000

\* C3: a context holds at most one entry per normalized URL: no key occurs
\* twice, and merging a candidate whose normalized URL is the key of an entry
\* leaves the number of entries and the set of keys as they were.
C3_OneEntryPerUrl ==
  /\ \A t \in DOMAIN videosByTab : \A i, j \in 1..Len(videosByTab[t]) :
       videosByTab[t][i].url = videosByTab[t][j].url => i = j
  /\ \A t \in DOMAIN videosByTab : \A v \in Candidates :
       (Mergeable(v) /\ cleanByteRangeUrl(v.url) \in Keys(videosByTab, t)) =>
         LET merged == addVideoToTab(videosByTab, t, v, now)
         IN  /\ Len(merged[t]) = Len(videosByTab[t])
             /\ Keys(merged, t) = Keys(videosByTab, t)

\* a byte-range URL reported by a site parser has been merged into the entry
\* that a network observation of the same resource created
C3_Witness ==
  /\ 1 \in DOMAIN videosByTab
  /\ \E i \in 1..Len(videosByTab[1]) :
       /\ videosByTab[1][i].url = "v.mp4"
       /\ videosByTab[1][i].size = 8000000
       /\ videosByTab[1][i].source = "instagram"
  /\ Cardinality(Keys(videosByTab, 1)) = Len(videosByTab[1])

SourceMonotone(e, e2) ==
  /\ SOURCE_PRIORITY(e2.source) >= SOURCE_PRIORITY(e.source)
  /\ e2.source # e.source => SOURCE_PRIORITY(e2.source) > SOURCE_PRIORITY(e.source)

FieldKept(old, new) == Truthy(old) => new = old

\* C4: merge is monotonic on an existing entry: merging any candidate into
\* an entry of any reachable registry keeps or strictly raises the priority of
\* its source (the source changes only to the candidate's strictly
\* higher-priority source), keeps a non-empty quality and title, and fills an
\* empty quality or title with the candidate's non-empty one.
C4_MergeMonotonic ==
  \A t \in Tabs : \A v \in Candidates :
    LET k == cleanByteRangeUrl(v.url)
    IN  (Mergeable(v) /\ k \in Keys(videosByTab, t)) =>
          LET e == MapGet(videosByTab[t], k)
              e2 == MapGet(addVideoToTab(videosByTab, t, v, now)[t], k)
          IN  /\ SourceMonotone(e, e2)
              /\ e2.source # e.source => e2.source = v.source
              /\ FieldKept(e.quality, e2.quality)
              /\ FieldKept(e.title, e2.title)
              /\ (~Truthy(e.quality) /\ Truthy(v.quality)) => e2.quality = v.quality
              /\ (~Truthy(e.title) /\ Truthy(v.title)) => e2.title = v.title

\* the entry a network observation created (source webRequest, no quality, no
\* title) has been upgraded by a later report of a site parser
C4_Witness ==
  /\ 1 \in DOMAIN videosByTab
  /\ \E i \in 1..Len(videosByTab[1]) :
       /\ videosByTab[1][i].url = "v.mp4"
       /\ videosByTab[1][i].size = 8000000
       /\ videosByTab[1][i].source = "twitter"
       /\ videosByTab[1][i].quality = "1080p"
       /\ videosByTab[1][i].title = "Tweet"

-----------------------------------------------------------------------------
(* Properties of query, clear and destroy                                  *)

Entries(store, tabId) ==
  IF tabId \in DOMAIN store THEN {store[tabId][i] : i \in 1..Len(store[tabId])} ELSE {}

\* C6: TTL eviction: no entry carries a timestamp later than the clock (so an
\* entry a candidate was merged into at time T was first seen at or before T),
\* a GET_VIDEOS response holds no entry older than the TTL, and once the
\* response is sent the queried tab's map holds no entry older than the TTL,
\* playable or not.
C6_TtlEviction ==
  /\ \A t \in DOMAIN videosByTab : \A e \in Entries(videosByTab, t) : e.timestamp <= now
  /\ response.sent =>
       /\ \A i \in 1..Len(response.videos) :
            now - response.videos[i].timestamp <= ENTRY_TTL_MS
       /\ \A e \in Entries(videosByTab, response.tabId) : now - e.timestamp <= ENTRY_TTL_MS
       /\ response.evicted \cap Keys(videosByTab, response.tabId) = {}

\* a query made after the TTL of the unplayable a.webm entry has deleted it
C6_Witness ==
  /\ response.sent /\ response.tabId = 1
  /\ now > ENTRY_TTL_MS
  /\ "a.webm" \in response.evicted
  /\ "v.mp4" \in Keys(videosByTab, 1)

\* the tab's slot: <<>> when there is none, <<map>> otherwise
Slot(store, tabId) == IF tabId \in DOMAIN store THEN <<store[tabId]>> ELSE <<>>

\* C7: context isolation: a step changes the entries of at most one tab; the
\* step that answers GET_VIDEOS(t) changes no other tab and answers only with
\* views of entries that tab t held; and tab 2, for which only the network
\* observation of v.mp4 is ever reported, never holds or is answered anything
\* that was merged under tab 1.
C7_ContextIsolation ==
  [][ /\ Cardinality({t \in Tabs : Slot(videosByTab, t) # Slot(videosByTab', t)}) <= 1
      /\ response'.sent =>
           /\ \A t \in Tabs \ {response'.tabId} : Slot(videosByTab, t) = Slot(videosByTab', t)
           /\ \A i \in 1..Len(response'.videos) :
                \E e \in Entries(videosByTab, response'.tabId) :
                  /\ e.url = response'.videos[i].url
                  /\ e.source = response'.videos[i].source
                  /\ e.timestamp = response'.videos[i].timestamp
      /\ \A e \in Entries(videosByTab', 2) :
           e.url = "v.mp4" /\ e.source = "webRequest" /\ e.size = 8000000
      /\ (response'.sent /\ response'.tabId = 2) =>
           \A i \in 1..Len(response'.videos) : response'.videos[i].source = "webRequest"
    ]_vars

\* both tabs hold an entry for v.mp4, tab 1 from a site parser and tab 2 from
\* the network, and tab 2 has just been answered with its own
C7_Witness ==
  /\ \E e \in Entries(videosByTab, 1) : e.url = "v.mp4" /\ e.source = "instagram"
  /\ \E e \in Entries(videosByTab, 2) : e.url = "v.mp4" /\ e.source = "webRequest"
  /\ response.sent /\ response.tabId = 2 /\ Len(response.videos) = 1

\* C9: merge changes nothing when the tab id or the URL is missing or the URL
\* has a blob: or data: scheme, and no key stored in any context has a blob:
\* or data: scheme.
C9_NoBlobOrDataKeys ==
  /\ \A t \in Tabs \cup {NoTab} : \A v \in Candidates :
       (t = NoTab \/ ~Mergeable(v)) => addVideoToTab(videosByTab, t, v, now) = videosByTab
  /\ \A t \in DOMAIN videosByTab : \A k \in Keys(videosByTab, t) :
       ~StartsWith(k, "blob:") /\ ~StartsWith(k, "data:")

\* C10: clear empties the tab's map and keeps its slot, is idempotent and
\* does nothing for a tab without slot; destroy removes the slot, after which
\* a query answers the empty list and leaves the store as it is.
C10_ClearAndDestroy ==
  \A t \in Tabs \cup {NoTab} :
    LET cleared == clearVideos(videosByTab, t)
        removed == removeTab(videosByTab, t)
        after == getVideosForTab(removed, t, now)
    IN  /\ t \in DOMAIN videosByTab => (t \in DOMAIN cleared /\ cleared[t] = <<>>)
        /\ t \notin DOMAIN videosByTab => cleared = videosByTab
        /\ clearVideos(cleared, t) = cleared
        /\ t \notin DOMAIN removed
        /\ \A u \in Tabs \ {t} : Slot(removed, u) = Slot(videosByTab, u)
        /\ after.videos = <<>> /\ after.store = removed

\* at time 0, when nothing can have expired, tab 1 has a slot with an empty
\* map (it held an entry and was cleared), and a query for tab 2, which has no
\* slot, has just been answered with the empty list
C10_Witness ==
  /\ now = 0
  /\ 1 \in DOMAIN videosByTab /\ videosByTab[1] = <<>>
  /\ 2 \notin DOMAIN videosByTab
  /\ response.sent /\ response.tabId = 2 /\ response.videos = <<>>

-----------------------------------------------------------------------------
(* Ranking: one tab whose page loads more playable media than a response   *)
(* may hold.  The page requests its media files in a fixed order and its   *)
(* content script reports its elements in a fixed order; the two feeds     *)
(* interleave freely with each other, with the clock and with queries.     *)

\* scores: a.mp4 100, b.mp4 80; hls/seg-1.ts is a segment
NetworkFeed ==
  << Details(1, "a.mp4", "video/mp4", "60000000"),
     Details(1, "b.mp4", "video/mp4", "8000000"),
     Details(1, "hls/seg-1.ts", "video/mp2t", "2000000") >>

\* scores: d.mp4 = g.mp4 = 80, e.mp4 140, h.mp4 130
MessageFeed ==
  << Message(NoTab, "d.mp4", "dom", Undefined, "", Undefined),
     Message(NoTab, "e.mp4", "instagram", "720p", "Reel", Undefined),
     Message(NoTab, "g.mp4", "dom", Undefined, "", Undefined),
     Message(NoTab, "h.mp4", "twitter", Undefined, "Tweet", Undefined) >>

\* the page asks for the i-th item of a feed once the earlier ones are in the
\* registry, and only while the item itself is not
FeedReady(urls, i) ==
  /\ \A j \in 1..(i - 1) : urls[j] \in Keys(videosByTab, 1)
  /\ urls[i] \notin Keys(videosByTab, 1)

NextRank ==
  \/ \E i \in 1..Len(NetworkFeed) :
       /\ FeedReady([j \in 1..Len(NetworkFeed) |-> NetworkFeed[j].url], i)
       /\ WebRequestCompleted(NetworkFeed[i])
  \/ \E i \in 1..Len(MessageFeed) :
       /\ FeedReady([j \in 1..Len(MessageFeed) |-> MessageFeed[j].url], i)
       /\ AddVideoMessage(MessageFeed[i], 1)
  \/ GetVideosMessage(1)
  \/ Tick

SpecRank == Init /\ [][NextRank]_vars

RanksAbove(a, b) ==
  a.score > b.score \/ (a.score = b.score /\ a.timestamp > b.timestamp)

\* C5: a GET_VIDEOS response holds at most MAX_RESULTS videos, each the view
\* of an unexpired, playable entry of the queried tab, in descending order of
\* score and, at equal score, of timestamp; it holds as many as there are such
\* entries, up to the cap, and no such entry left out ranks above a returned
\* one.
C5_RankedQuery ==
  response.sent =>
    LET videos == response.videos
        eligible == {e \in Entries(videosByTab, response.tabId) :
                       ~IsExpired(e, now) /\ IsPlayableEntry(e)}
        returned == {videos[i].url : i \in 1..Len(videos)}
    IN  /\ Len(videos) <= MAX_RESULTS
        /\ Cardinality(returned) = Len(videos)
        /\ Len(videos) = IF Cardinality(eligible) < MAX_RESULTS
                           THEN Cardinality(eligible) ELSE MAX_RESULTS
        /\ \A i \in 1..Len(videos) : \E e \in eligible : videos[i] = VideoView(e)
        /\ \A i, j \in 1..Len(videos) : i < j => ~RanksAbove(videos[j], videos[i])
        /\ \A e \in eligible :
             e.url \notin returned =>
               \A i \in 1..Len(videos) : ~RanksAbove(VideoView(e), videos[i])

\* a response at the cap, with a sixth playable entry left out, an unplayable
\* entry filtered, and two returned videos of equal score in timestamp order
C5_Witness ==
  /\ response.sent /\ Len(response.videos) = MAX_RESULTS
  /\ Cardinality({e \in Entries(videosByTab, 1) : IsPlayableEntry(e)}) > MAX_RESULTS
  /\ \E e \in Entries(videosByTab, 1) : ~IsPlayableEntry(e)
  /\ \E i \in 1..(MAX_RESULTS - 1) :
       /\ response.videos[i].score = response.videos[i + 1].score
       /\ response.videos[i].timestamp > response.videos[i + 1].timestamp

-----------------------------------------------------------------------------
(* Navigation: the page of a tab changes its location, in-page (history    *)
(* API: the injected scripts live on) or by a full navigation (the document *)
(* is replaced and the scripts are injected afresh).  The background script *)
(* registers no navigation listener: it learns of a change from the         *)
(* CLEAR_VIDEOS message of the page alone.                                  *)

MaxNavigations == 2

\* the URL changes in-page; the entries held for the tab belong to the
\* location it leaves
NavigateInPage(t) ==
  /\ location[t] < MaxNavigations
  /\ location' = [location EXCEPT ![t] = @ + 1]
  /\ stale' = [stale EXCEPT ![t] = Keys(videosByTab, t)]
  /\ response' = NoResponse
  /\ UNCHANGED <<videosByTab, now, fetches, lastUrl, foundVideos, clearMsgs, CallVars>>

\* a full navigation: the watcher starts again in the new document with
\* lastUrl = document.location.href and an empty foundVideos
NavigateFull(t) ==
  /\ location[t] < MaxNavigations
  /\ location' = [location EXCEPT ![t] = @ + 1]
  /\ lastUrl' = [lastUrl EXCEPT ![t] = location'[t]]
  /\ foundVideos' = [foundVideos EXCEPT ![t] = {}]
  /\ stale' = [stale EXCEPT ![t] = Keys(videosByTab, t)]
  /\ response' = NoResponse
  /\ UNCHANGED <<videosByTab, now, fetches, clearMsgs, CallVars>>

\* the 500 ms poll of the watcher finds a changed href: it empties
\* foundVideos and dispatches CLEAR_EVENT, and the content script's listener
\* sends CLEAR_VIDEOS
CheckUrlChange(t) ==
  /\ location[t] # lastUrl[t]
  /\ lastUrl' = [lastUrl EXCEPT ![t] = location[t]]
  /\ foundVideos' = [foundVideos EXCEPT ![t] = {}]
  /\ clearMsgs' = [clearMsgs EXCEPT ![t] = @ + 1]
  /\ response' = NoResponse
  /\ UNCHANGED <<videosByTab, now, fetches, location, stale, CallVars>>

\* a CLEAR_VIDEOS message of tab t reaches the background script
DeliverClearVideos(t) ==
  /\ clearMsgs[t] > 0
  /\ clearMsgs' = [clearMsgs EXCEPT ![t] = @ - 1]
  /\ HandleClearVideos(t)
  /\ UNCHANGED <<location, lastUrl, foundVideos>>

NavMessages ==
  { Message(NoTab, "v.mp4", "dom", Undefined, "", Undefined),
    Message(NoTab, "w.mp4", "twitter", "1080p", "Tweet", Undefined) }

NextNav ==
  \/ \E t \in Tabs : WebRequestCompleted(Details(t, "v.mp4", "video/mp4", "8000000"))
  \/ \E message \in NavMessages : AddVideoMessage(message, 1)
  \/ \E t \in Tabs : NavigateInPage(t)
  \/ \E t \in Tabs : NavigateFull(t)
  \/ \E t \in Tabs : CheckUrlChange(t)
  \/ \E t \in Tabs : DeliverClearVideos(t)

\* the poll keeps running and sent messages are delivered
SpecNav ==
  /\ Init /\ [][NextNav]_vars
  /\ \A t \in Tabs : WF_vars(CheckUrlChange(t)) /\ WF_vars(DeliverClearVideos(t))

\* C8: whenever a tab holds entries collected for a location it has left,
\* those entries are eventually cleared.
C8_NavigationClears ==
  \A t \in Tabs : (stale[t] # {}) ~> (stale[t] = {})

-----------------------------------------------------------------------------
(* Frame of query                                                          *)

\* C11: a query, at the present or any later instant, for any tab or for a
\* missing tab id, has a result; for a tab without slot it returns the empty
\* list and the registry as it was; for a tab with a slot it leaves the set of
\* slots and every other tab's map as they were, and the queried tab's map
\* holds afterwards exactly its unexpired entries, each with all its fields,
\* once each, whether returned or not.
C11_QueryFrame ==
  \A t \in Tabs \cup {NoTab} : \A c \in {c \in ClockValues : c >= now} :
    LET r == getVideosForTab(videosByTab, t, c)
    IN  /\ t \notin DOMAIN videosByTab => (r.videos = <<>> /\ r.store = videosByTab)
        /\ DOMAIN r.store = DOMAIN videosByTab
        /\ \A u \in DOMAIN videosByTab \ {t} : r.store[u] = videosByTab[u]
        /\ t \in DOMAIN videosByTab =>
             /\ Entries(r.store, t) =
                  {e \in Entries(videosByTab, t) : c - e.timestamp <= ENTRY_TTL_MS}
             /\ Len(r.store[t]) = Cardinality(Entries(r.store, t))

\* a query for tab 1 has evicted the expired v.mp4 and kept the younger
\* a.webm, which it did not return; tab 2 holds its own entry
C11_Witness ==
  /\ response.sent /\ response.tabId = 1
  /\ "v.mp4" \in response.evicted
  /\ "a.webm" \in Keys(videosByTab, 1)
  /\ \A i \in 1..Len(response.videos) : response.videos[i].url # "a.webm"
  /\ "v.mp4" \in Keys(videosByTab, 2)

-----------------------------------------------------------------------------
(* The classifier as a function: isPlayableVideo is called on one of the   *)
(* argument tuples below and returns.                                      *)

ClassifierUrls ==
  { "v.mp4", "V.MP4?x=1", "clip.webm", "CLIP.WEBM#t=1",
    "hls/seg-12.ts", "a/seg-12.mp4", "v_segment3.mp4",
    "a/audio/t.mp4", "t_audio-only.mp4", "t.m4a", "t.aac",
    "s.ts", "s.m4s", "x.js", "page", "m.m3u8", "v.mp4?bytestart=5",
    "https://www.youtube.com/watch?v=1" }

ClassifierContentTypes == {Null, "video/mp4", "video/mp2t", "text/html"}

ClassifierSizes == {NoSize, 100000, 499999, 500000, 1000000, 1000001, 8000000}

\* every key of SOURCE_PRIORITY, the content script's "youtube", and no source
SourceTags ==
  { "instagram", "twitter", "vimeo", "tiktok", "instagram-json", "api", "hls",
    "og:video", "dom-playing", "dom", "webRequest", "youtube", Undefined }

InitClassifier ==
  /\ Installed
  /\ input \in [fn : {"isPlayableVideo"}, url : ClassifierUrls,
                contentType : ClassifierContentTypes, size : ClassifierSizes,
                source : SourceTags]
  /\ output = Pending

\* the call returns
Classify ==
  /\ input.fn = "isPlayableVideo" /\ ~output.done
  /\ output' = [done |-> TRUE,
                value |-> isPlayableVideo(input.url, input.contentType, input.size, input.source)]
  /\ UNCHANGED <<videosByTab, now, response, fetches, stale, PageVars, input>>

SpecClassifier == InitClassifier /\ [][Classify]_vars

\* the source tags of the dedicated per-site parsers
DedicatedParsers == {"instagram", "twitter", "vimeo", "tiktok"}

LowConfidence(source) ==
  ~Truthy(source) \/ SOURCE_PRIORITY(source) < HIGH_CONFIDENCE_PRIORITY

DirectPlayUrls == {"https://www.youtube.com/watch?v=1"}

WebmUrls == {"clip.webm", "CLIP.WEBM#t=1"}

SegmentNameUrls == {"hls/seg-12.ts", "a/seg-12.mp4", "v_segment3.mp4"}

AudioOnlyUrls == {"a/audio/t.mp4", "t_audio-only.mp4", "t.m4a", "t.aac"}

PlainMp4Urls == {"v.mp4", "V.MP4?x=1"}

\* C12: for a source below the high-confidence threshold and a URL that is
\* not a direct-play URL, whatever the content type: a .webm URL, a URL with a
\* segment name (seg-12, _segment3) and an audio-only URL are not playable
\* whatever the size; a plain .mp4 URL with a declared size below 500,000 is
\* not playable; a plain .mp4 URL with no declared size is playable.
C12_ClassifierExamples ==
  (output.done /\ input.fn = "isPlayableVideo" /\ LowConfidence(input.source)
     /\ input.url \notin DirectPlayUrls) =>
    /\ input.url \in WebmUrls \cup SegmentNameUrls \cup AudioOnlyUrls => output.value = FALSE
    /\ (input.url \in PlainMp4Urls /\ input.size # NoSize /\ input.size < 500000) =>
         output.value = FALSE
    /\ (input.url \in PlainMp4Urls /\ input.size = NoSize) => output.value = TRUE

\* a .mp4 URL of declared size 100,000, seen on the network with a video
\* content type, has been rejected
C12_Witness ==
  /\ output.done /\ input.fn = "isPlayableVideo"
  /\ input.url = "v.mp4" /\ input.size = 100000
  /\ input.contentType = "video/mp4" /\ input.source = "webRequest"
  /\ output.value = FALSE

\* C13: a candidate whose source has priority at or above the high-confidence
\* threshold is playable whatever its URL, content type and size; the sources
\* at or above the threshold are the dedicated per-site parsers; a candidate
\* with any other source tag is classified by the remaining checks, that is,
\* as the same candidate without a source tag is.
C13_HighConfidenceSources ==
  (output.done /\ input.fn = "isPlayableVideo") =>
    /\ ~LowConfidence(input.source) => output.value = TRUE
    /\ ~LowConfidence(input.source) <=> input.source \in DedicatedParsers
    /\ input.source \notin DedicatedParsers =>
         output.value = isPlayableVideo(input.url, input.contentType, input.size, Undefined)

SegmentExtensionUrls == {"s.ts", "s.m4s", "t.m4a", "hls/seg-12.ts"}

\* C20: a URL with a segment extension (.ts, .m4s, .m4a) from a source below
\* the high-confidence threshold is not playable when it has no declared size
\* or one of at most 1,000,000; with a larger size it is judged by the later
\* checks alone: s.ts and s.m4s, which match no segment or audio-only pattern,
\* are playable, t.m4a (audio-only) and hls/seg-12.ts (segment name) are not.
C20_SegmentExtensionRule ==
  (output.done /\ input.fn = "isPlayableVideo" /\ LowConfidence(input.source)
     /\ input.url \in SegmentExtensionUrls) =>
    /\ (input.size = NoSize \/ input.size <= 2 * MIN_VIDEO_SIZE_BYTES) => output.value = FALSE
    /\ input.size > 2 * MIN_VIDEO_SIZE_BYTES =>
         output.value = (input.url \in {"s.ts", "s.m4s"})

-----------------------------------------------------------------------------
(* The scorer as a function: scoreVideo is called on one of the argument   *)
(* tuples below and returns, while the clock and the registry move on.     *)

ScorerUrls == {"v.mp4", "m.m3u8", "clip.webm", "hd/1080/v.mp4", "v720.mp4"}

ScorerSizes == {NoSize, 5000000, 5000001, 10000001, 50000001}

ScorerQualities == {Undefined, Null, "", "1080p", "720p", "480p", "360p", "auto"}

InitScorer ==
  /\ Installed
  /\ input \in [fn : {"scoreVideo"}, url : ScorerUrls, size : ScorerSizes,
                source : SourceTags, quality : ScorerQualities]
  /\ output = Pending

\* the call returns
Score ==
  /\ input.fn = "scoreVideo" /\ ~output.done
  /\ output' = [done |-> TRUE,
                value |-> scoreVideo(input.url, input.size, input.source, input.quality)]
  /\ UNCHANGED <<videosByTab, now, response, fetches, stale, PageVars, input>>

\* time passes and the registry changes; neither touches a call's result
ScorerTick == Tick

ScorerStore == WebRequestCompleted(Details(1, "v.mp4", "video/mp4", "8000000"))

NextScorer == Score \/ ScorerTick \/ ScorerStore

SpecScorer == InitScorer /\ [][NextScorer]_vars

Priority(source) == IF Truthy(source) THEN SOURCE_PRIORITY(source) ELSE 0

\* C14: the score returned for (url, size, source, quality) is the score of
\* the same arguments at every later time and in every registry state, and
\* with url, size and quality fixed every source of strictly higher priority
\* scores strictly higher, every source of equal priority the same.
C14_ScoreDeterministicMonotonic ==
  (output.done /\ input.fn = "scoreVideo") =>
    /\ output.value = scoreVideo(input.url, input.size, input.source, input.quality)
    /\ \A s2 \in SourceTags :
         LET other == scoreVideo(input.url, input.size, s2, input.quality)
         IN  /\ Priority(s2) > Priority(input.source) => other > output.value
             /\ Priority(s2) = Priority(input.source) => other = output.value

\* score(v.mp4, no size, dom, 720p) = 90 was returned at time 0 and is looked
\* at after the TTL, with an entry in the registry
C14_Witness ==
  /\ output.done /\ input.fn = "scoreVideo"
  /\ input.url = "v.mp4" /\ input.size = NoSize
  /\ input.source = "dom" /\ input.quality = "720p"
  /\ output.value = 90
  /\ scoreVideo("v.mp4", NoSize, "instagram", "720p") = 140
  /\ now > ENTRY_TTL_MS /\ Keys(videosByTab, 1) # {}

-----------------------------------------------------------------------------
(* The normalizer as a function: cleanByteRangeUrl is called on a URL      *)
(* built from a base and a list of query parameters, or on one of a few    *)
(* other strings, and returns.                                             *)

MaxParams == 3

NormalizerBases == {"a", "https://h/p/v.mp4"}

QueryParams == {"x=1", "bytestart=5", "byteend=9", "bytestart=abc", "t=bytestart"}

RECURSIVE JoinParams(_)
JoinParams(params) ==
  IF params = <<>> THEN ""
  ELSE IF Len(params) = 1 THEN params[1]
  ELSE params[1] \o "&" \o JoinParams(Tail(params))

\* base?p1&p2&...; the base alone when there is no parameter
BuildUrl(base, params) ==
  IF params = <<>> THEN base ELSE base \o "?" \o JoinParams(params)

\* strings a page may hand over that are not of that shape
OtherStrings == {"a??", "a?", "a?bytestart=1bytestart=2", "a&byte&bytestart=5start=5"}

NormalizerInputs ==
  { [fn |-> "cleanByteRangeUrl", url |-> BuildUrl(b, ps), built |-> TRUE,
     base |-> b, params |-> ps] :
      b \in NormalizerBases, ps \in UNION {[1..n -> QueryParams] : n \in 0..MaxParams} }
  \cup
  { [fn |-> "cleanByteRangeUrl", url |-> x, built |-> FALSE, base |-> x, params |-> <<>>] :
      x \in OtherStrings }

InitNormalizer ==
  /\ Installed
  /\ input \in NormalizerInputs
  /\ output = Pending

\* the call returns
Normalize ==
  /\ input.fn = "cleanByteRangeUrl" /\ ~output.done
  /\ output' = [done |-> TRUE, value |-> cleanByteRangeUrl(input.url)]
  /\ UNCHANGED <<videosByTab, now, response, fetches, stale, PageVars, input>>

SpecNormalizer == InitNormalizer /\ [][Normalize]_vars

\* C15: normalization is idempotent: normalizing a normalized string returns
\* it unchanged.
C15_NormalizeIdempotent ==
  (output.done /\ input.fn = "cleanByteRangeUrl") =>
    cleanByteRangeUrl(output.value) = output.value

IsByteRangeParam(p) == StartsWith(p, "bytestart=") \/ StartsWith(p, "byteend=")

\* C16: normalizing base?p1&...&pn returns the base with exactly the
\* parameters that are not named bytestart or byteend, in their order and
\* with their values, and without "?" when none is left.
C16_NormalizeStripsByteRange ==
  (output.done /\ input.fn = "cleanByteRangeUrl" /\ input.built) =>
    output.value =
      BuildUrl(input.base, SelectSeq(input.params, LAMBDA p : ~IsByteRangeParam(p)))

-----------------------------------------------------------------------------
(* The page-context manifest parser (HLSParser.onLoad of the watcher)      *)

IsPartSeparator(c) == IsSpace(c) \/ c = ","

\* the position of the first character of s at or after i that is (sep =
\* TRUE) or is not (sep = FALSE) a separator; Len(s) + 1 when there is none
RECURSIVE SkipWhile(_, _, _)
SkipWhile(s, i, sep) ==
  IF i <= Len(s) /\ IsPartSeparator(CharAt(s, i)) # sep THEN SkipWhile(s, i + 1, sep) ELSE i

\* segment.split(/[\s,\n]+/)
RECURSIVE SplitParts(_)
SplitParts(s) ==
  IF SkipWhile(s, 1, TRUE) > Len(s) THEN <<s>>
  ELSE <<SubSeq(s, 1, SkipWhile(s, 1, TRUE) - 1)>>
         \o SplitParts(Rest(s, SkipWhile(s, SkipWhile(s, 1, TRUE), FALSE)))

\* x.split(sep)[1] as it reads in a template or a concatenation
SecondPiece(pieces) == IF Len(pieces) >= 2 THEN pieces[2] ELSE "undefined"

\* the quality a part with RESOLUTION= sets: res.split("x")[1] + "p", unless
\* res (part.split("=")[1]) is empty
PartQuality(part, quality) ==
  IF ~Includes(part, "RESOLUTION=") THEN quality
  ELSE IF Split(part, "=")[2] = "" THEN quality
  ELSE SecondPiece(Split(Split(part, "=")[2], "x")) \o "p"

PartUrl(part, variantUrl) ==
  IF /\ ~StartsWith(part, "#")
     /\ \/ Includes(part, ".m3u8")
        \/ StartsWith(part, "http://") \/ StartsWith(part, "https://")
    THEN Trim(part) ELSE variantUrl

\* the loop over the parts of one #EXT-X-STREAM-INF block
RECURSIVE ScanParts(_, _, _)
ScanParts(parts, quality, variantUrl) ==
  IF parts = <<>> THEN [quality |-> quality, url |-> variantUrl]
  ELSE ScanParts(Tail(parts), PartQuality(Head(parts), quality),
                 PartUrl(Head(parts), variantUrl))

\* found.url made absolute against the manifest's directory
Absolute(found, base) ==
  IF found.url = Null THEN found
  ELSE IF ~StartsWith(found.url, "http") /\ base # Null
    THEN [found EXCEPT !.url = base \o found.url]
  ELSE found

RECURSIVE PageSegments(_, _)
PageSegments(segments, url) ==
  IF segments = <<>> THEN <<>>
  ELSE (IF Trim(Head(segments)) = "" THEN <<>>
        ELSE IF ScanParts(SplitParts(Head(segments)), Null, Null).url = Null THEN <<>>
        ELSE <<Absolute(ScanParts(SplitParts(Head(segments)), Null, Null), BaseMatch(url))>>)
       \o PageSegments(Tail(segments), url)

\* the candidates HLSParser.onLoad hands to dispatchVideo, in order, as
\* [quality, url]
HLSParserOnLoad(responseText, url) ==
  IF ~Includes(responseText, "#EXTM3U") THEN <<>>
  ELSE IF ~Includes(url, ".m3u8") THEN <<>>
  ELSE IF Includes(responseText, "#EXT-X-STREAM-INF:")
    THEN SortVariants(PageSegments(Split(responseText, "#EXT-X-STREAM-INF:"), url))
  ELSE <<[quality |-> Undefined, url |-> url]>>

-----------------------------------------------------------------------------
(* The two manifest parsers as functions of (body, url): the body is a     *)
(* master index that declares the streams below, each once, in some order. *)

MaxStreams == 3

\* w = h = 0: the stream declares no RESOLUTION
Streams ==
  { [w |-> 1280, h |-> 720, attrs |-> "", path |-> "hi.m3u8"],
    [w |-> 640, h |-> 360, attrs |-> ",FRAME-RATE=30", path |-> "lo.m3u8"],
    [w |-> 720, h |-> 1280, attrs |-> "", path |-> "tall.m3u8"],
    [w |-> 0, h |-> 0, attrs |-> "", path |-> "x.m3u8"],
    [w |-> 1920, h |-> 1080, attrs |-> "", path |-> "https://c/full.m3u8"] }

StreamBlock(st) ==
  "#EXT-X-STREAM-INF:BANDWIDTH=1"
    \o (IF st.w = 0 THEN ""
        ELSE ",RESOLUTION=" \o ToString(st.w) \o "x" \o ToString(st.h))
    \o st.attrs \o "\n" \o st.path \o "\n"

RECURSIVE StreamBlocks(_)
StreamBlocks(streams) ==
  IF streams = <<>> THEN "" ELSE StreamBlock(Head(streams)) \o StreamBlocks(Tail(streams))

ManifestText(streams) == "#EXTM3U\n" \o StreamBlocks(streams)

StreamLists ==
  UNION { {l \in [1..n -> Streams] : \A i, j \in 1..n : l[i] = l[j] => i = j} :
            n \in 1..MaxStreams }

ManifestUrl == "https://h/p/master.m3u8"

InitManifest ==
  /\ Installed
  /\ input \in [fn : {"fetchAndParseM3U8", "HLSParser.onLoad"}, streams : StreamLists]
  /\ output = Pending

\* the background parser has parsed the body
ParseInBackground ==
  /\ input.fn = "fetchAndParseM3U8" /\ ~output.done
  /\ output' = [done |-> TRUE, value |-> ParseM3U8(ManifestText(input.streams), ManifestUrl)]
  /\ UNCHANGED <<videosByTab, now, response, fetches, stale, PageVars, input>>

\* the page-context parser has parsed the body
ParseInPage ==
  /\ input.fn = "HLSParser.onLoad" /\ ~output.done
  /\ output' = [done |-> TRUE, value |-> HLSParserOnLoad(ManifestText(input.streams), ManifestUrl)]
  /\ UNCHANGED <<videosByTab, now, response, fetches, stale, PageVars, input>>

NextManifest == ParseInBackground \/ ParseInPage

SpecManifest == InitManifest /\ [][NextManifest]_vars

Min(a, b) == IF a < b THEN a ELSE b

\* the quality a declared stream is to get: min(W, H) and "p"; none without
\* RESOLUTION
DeclaredQuality(st) == IF st.w = 0 THEN Null ELSE ToString(Min(st.w, st.h)) \o "p"

\* the declared streams in descending order of min(W, H), streams of equal
\* rank in manifest order
RECURSIVE RankedStreams(_)
RankedStreams(streams) ==
  IF streams = <<>> THEN <<>>
  ELSE LET rest == RankedStreams(SubSeq(streams, 1, Len(streams) - 1))
           x == streams[Len(streams)]
           k == Cardinality({i \in 1..Len(rest) : Min(rest[i].w, rest[i].h) >= Min(x.w, x.h)})
       IN  SubSeq(rest, 1, k) \o <<x>> \o SubSeq(rest, k + 1, Len(rest))

\* C17: either parser, given a master index of up to MaxStreams streams,
\* returns one variant per stream, in descending order of min(W, H) (0 for a
\* stream without RESOLUTION, manifest order among equals), each with the
\* quality min(W, H) followed by "p".
C17_VariantQualityOrder ==
  (output.done /\ input.fn \in {"fetchAndParseM3U8", "HLSParser.onLoad"}) =>
    /\ Len(output.value) = Len(input.streams)
    /\ \A i \in 1..Len(output.value) :
         output.value[i].quality = DeclaredQuality(RankedStreams(input.streams)[i])

-----------------------------------------------------------------------------
(* The page-context adapter (dispatchVideo of the watcher): URLs           *)

IsAlpha(c) ==
  \/ c \in UpperCase
  \/ c \in {"a", "b", "c", "d", "e", "f", "g", "h", "i", "j", "k", "l", "m",
            "n", "o", "p", "q", "r", "s", "t", "u", "v", "w", "x", "y", "z"}

\* the position of the ":" that ends the scheme s starts with from position
\* i on; 0 when s starts with no scheme
RECURSIVE SchemeEnd(_, _)
SchemeEnd(s, i) ==
  IF i > Len(s) THEN 0
  ELSE IF CharAt(s, i) = ":" THEN (IF i > 1 THEN i ELSE 0)
  ELSE IF IsAlpha(CharAt(s, i)) \/ (i > 1 /\ (IsDigit(CharAt(s, i)) \/ CharAt(s, i) \in {"+", "-", "."}))
    THEN SchemeEnd(s, i + 1)
  ELSE 0

\* url.protocol
Protocol(s) == ToLowerCase(SubSeq(s, 1, SchemeEnd(s, 1)))

RECURSIVE SkipSlashes(_, _)
SkipSlashes(s, i) ==
  IF i <= Len(s) /\ CharAt(s, i) \in {"/", "\\"} THEN SkipSlashes(s, i + 1) ELSE i

\* new URL(s) does not throw: s starts with a scheme, and names a host when
\* the scheme is one that needs it
UrlParses(s) ==
  /\ SchemeEnd(s, 1) > 0
  /\ Protocol(s) \in {"http:", "https:", "ws:", "wss:", "ftp:"} =>
       /\ SkipSlashes(s, SchemeEnd(s, 1) + 1) <= Len(s)
       /\ CharAt(s, SkipSlashes(s, SchemeEnd(s, 1) + 1)) \notin {"?", "#"}

isValidUrl(str) == UrlParses(str) /\ Protocol(str) \in {"http:", "https:"}

\* the application/x-www-form-urlencoded serialisation of a character, for
\* the characters of the locations below
FormEncodeChar(c) ==
  CASE c = "{" -> "%7B" [] c = "}" -> "%7D" [] c = "\"" -> "%22" [] c = ":" -> "%3A"
    [] c = "/" -> "%2F" [] c = "," -> "%2C" [] c = "?" -> "%3F" [] c = "=" -> "%3D"
    [] c = "&" -> "%26" [] c = "#" -> "%23" [] c = " " -> "+"
    [] OTHER -> c

RECURSIVE FormEncode(_)
FormEncode(s) ==
  IF s = "" THEN "" ELSE FormEncodeChar(CharAt(s, 1)) \o FormEncode(Rest(s, 2))

\* JSON.stringify(headers), the keys in the order they were set
StringifyHeaders(referer, origin) ==
  "{"
    \o (IF referer # "" /\ isValidUrl(referer) THEN "\"referer\":\"" \o referer \o "\"" ELSE "")
    \o (IF referer # "" /\ isValidUrl(referer) /\ origin # "" /\ isValidUrl(origin) THEN "," ELSE "")
    \o (IF origin # "" /\ isValidUrl(origin) THEN "\"origin\":\"" \o origin \o "\"" ELSE "")
    \o "}"

UrlBefore(s, mark) == IF IndexOf(s, mark) = 0 THEN s ELSE SubSeq(s, 1, IndexOf(s, mark) - 1)

UrlFrom(s, mark) == IF IndexOf(s, mark) = 0 THEN "" ELSE Rest(s, IndexOf(s, mark))

ParamName(param) == Split(param, "=")[1]

\* the parameters of the query of s (the text between "?" and "#")
SearchParams(s) ==
  SelectSeq(Split(Rest(UrlFrom(UrlBefore(s, "#"), "?"), 2), "&"), LAMBDA q : q # "")

\* searchParams.set: the first parameter named as pair is replaced, further
\* ones are removed, and pair is appended when there was none
RECURSIVE SetParam(_, _, _)
SetParam(params, pair, placed) ==
  IF params = <<>> THEN (IF placed THEN <<>> ELSE <<pair>>)
  ELSE IF ParamName(Head(params)) = ParamName(pair)
    THEN (IF placed THEN <<>> ELSE <<pair>>) \o SetParam(Tail(params), pair, TRUE)
  ELSE <<Head(params)>> \o SetParam(Tail(params), pair, placed)

\* url.searchParams.set("headers", value); url.toString(), for a URL that
\* is written the way toString writes it
SetHeaders(s, value) ==
  BuildUrl(UrlBefore(UrlBefore(s, "#"), "?"),
           SetParam(SearchParams(s), "headers=" \o FormEncode(value), FALSE))
    \o UrlFrom(s, "#")

embedHeaders(videoUrl, referer, origin) ==
  IF referer = "" /\ origin = "" THEN videoUrl
  ELSE IF Includes(videoUrl, "headers=") THEN videoUrl
  ELSE IF StringifyHeaders(referer, origin) = "{}" THEN videoUrl
  ELSE IF ~UrlParses(videoUrl) THEN videoUrl
  ELSE SetHeaders(videoUrl, StringifyHeaders(referer, origin))

IncludesCI(s, p) == \E i \in 1..(Len(s) - Len(p) + 1) : MatchAtCI(s, i, p)

isAlreadyProxied(url) ==
  \/ IncludesCI(url, "m3u8-proxy?url=")
  \/ IncludesCI(url, "pipe.sideby.me")
  \/ IncludesCI(url, "/proxy/?url=")

\* the event detail dispatchVideo builds from video.url
Detail(url, proxied, referer, origin) ==
  [url |-> IF ~Includes(url, "headers=") /\ ~proxied
             THEN embedHeaders(url, referer, origin) ELSE url,
   alreadyProxied |-> IF proxied THEN True ELSE Undefined]

Dispatched(detail, found) ==
  [dispatched |-> TRUE, video |-> detail, found |-> found \cup {detail.url}]

\* dispatchVideo with the relay and headers guard of the embedding removed
dispatchVideo_alwaysEmbeds(url, found, referer, origin) ==
  IF ~Truthy(url) \/ url \in found
    THEN [dispatched |-> FALSE, video |-> [url |-> url, alreadyProxied |-> Undefined],
          found |-> found]
  ELSE Dispatched([url |-> embedHeaders(url, referer, origin),
                   alreadyProxied |-> IF isAlreadyProxied(url) THEN True ELSE Undefined],
                  found)

\* dispatchVideo({url}) on a page at referer (location.href) of origin
\* (location.origin), with foundVideos = found: whether the event went out,
\* its detail, and foundVideos afterwards
dispatchVideo(url, found, referer, origin) ==
  IF ~Truthy(url) \/ url \in found
    THEN [dispatched |-> FALSE, video |-> [url |-> url, alreadyProxied |-> Undefined],
          found |-> found]
  ELSE Dispatched(Detail(url, isAlreadyProxied(url), referer, origin), found)

-----------------------------------------------------------------------------
(* The adapter on one candidate URL, and on what it dispatched.            *)

\* location.href and location.origin of the pages
Pages ==
  { [href |-> "https://site/watch?v=1", origin |-> "https://site"],
    [href |-> "https://site/e?headers=x#t", origin |-> "https://site"],
    [href |-> "file:///v.html", origin |-> "file://"],
    [href |-> "about:blank", origin |-> "null"] }

AdapterUrls ==
  { "https://cdn/v.mp4", "https://cdn/v.m3u8?t=1", "https://cdn/v.mp4#t=5",
    "https://cdn/v.mp4?a=1&b=2#t", "/rel/v.mp4", "v.m3u8", "//cdn/v.mp4", "",
    "https://", "blob:https://site/1234",
    "https://cdn/v.mp4?headers=%7B%7D", "https://cdn/v.mp4?noheaders=1",
    "https://cdn/v.mp4?headers", "https://cdn/v.mp4?t=1&headers=x",
    "https://pipe.sideby.me/api?u=1", "https://Pipe.Sideby.Me/v.m3u8",
    "https://p/m3u8-proxy?url=https%3A%2F%2Fc%2Fv.m3u8", "https://p/proxy/?url=abc" }

InitAdapter ==
  /\ Installed
  /\ \E page \in Pages, fn \in {"dispatchVideo", "embedHeaders"}, url \in AdapterUrls :
       input = [fn |-> fn, url |-> url, referer |-> page.href, origin |-> page.origin,
                found |-> {}]
  /\ output = Pending

\* a parser hands the candidate to dispatchVideo
Dispatch ==
  /\ input.fn = "dispatchVideo" /\ ~output.done
  /\ output' = [done |-> TRUE,
                value |-> dispatchVideo(input.url, input.found, input.referer, input.origin)]
  /\ UNCHANGED <<videosByTab, now, response, fetches, stale, PageVars, input>>

\* embedHeaders applied on its own
Embed ==
  /\ input.fn = "embedHeaders" /\ ~output.done
  /\ output' = [done |-> TRUE,
                value |-> embedHeaders(input.url, input.referer, input.origin)]
  /\ UNCHANGED <<videosByTab, now, response, fetches, stale, PageVars, input>>

\* the page meets the dispatched URL again as a candidate, foundVideos kept
\* or cleared by checkUrlChange in between
DispatchAgain ==
  /\ input.fn = "dispatchVideo" /\ output.done /\ output.value.dispatched
  /\ \E found \in {output.value.found, {}} :
       input' = [input EXCEPT !.url = output.value.video.url, !.found = found]
  /\ output' = Pending
  /\ UNCHANGED <<videosByTab, now, response, fetches, stale, PageVars>>

\* the result of embedHeaders is embedded again
EmbedAgain ==
  /\ input.fn = "embedHeaders" /\ output.done
  /\ input' = [input EXCEPT !.url = output.value]
  /\ output' = Pending
  /\ UNCHANGED <<videosByTab, now, response, fetches, stale, PageVars>>

\* a parser hands the same candidate URL to dispatchVideo once more, with
\* foundVideos as the first call left it (no location change in between)
DispatchSame ==
  /\ input.fn = "dispatchVideo" /\ output.done /\ output.value.dispatched
  /\ input' = [input EXCEPT !.found = output.value.found]
  /\ output' = Pending
  /\ UNCHANGED <<videosByTab, now, response, fetches, stale, PageVars>>

NextAdapter == Dispatch \/ Embed \/ DispatchAgain \/ EmbedAgain \/ DispatchSame

SpecAdapter == InitAdapter /\ [][NextAdapter]_vars

\* the number of query parameters of url written headers=value
HeadersCount(url) ==
  Cardinality({i \in 1..Len(SearchParams(url)) :
                 StartsWith(SearchParams(url)[i], "headers=")})

\* a syntactically valid absolute URL without headers parameter that matches
\* no relay pattern
Eligible(url) == UrlParses(url) /\ HeadersCount(url) = 0 /\ ~isAlreadyProxied(url)

\* C18: dispatchVideo changes the candidate URL only if it is a valid
\* absolute URL without headers parameter and off every relay pattern, and
\* then by adding one headers parameter; a relay URL goes out unchanged and
\* flagged alreadyProxied; a URL with at most one headers parameter is
\* dispatched with at most one; embedHeaders gives at most one headers
\* parameter and returns its own result unchanged.
C18_EmbedOnceWhenEligible ==
  /\ (input.fn = "dispatchVideo" /\ output.done /\ output.value.dispatched) =>
       /\ output.value.video.url # input.url =>
            Eligible(input.url) /\ HeadersCount(output.value.video.url) = 1
       /\ isAlreadyProxied(input.url) =>
            output.value.video = [url |-> input.url, alreadyProxied |-> True]
       /\ HeadersCount(input.url) <= 1 => HeadersCount(output.value.video.url) <= 1
  /\ (input.fn = "embedHeaders" /\ output.done) =>
       /\ HeadersCount(input.url) <= 1 => HeadersCount(output.value) <= 1
       /\ embedHeaders(output.value, input.referer, input.origin) = output.value

\* a URL was dispatched with the headers parameter embedded, the referer and
\* origin percent-encoded in it
C18_Witness ==
  /\ input = [fn |-> "dispatchVideo", url |-> "https://cdn/v.m3u8?t=1",
              referer |-> "https://site/watch?v=1", origin |-> "https://site", found |-> {}]
  /\ output.done /\ output.value.dispatched
  /\ output.value.video.url =
       "https://cdn/v.m3u8?t=1&headers=%7B%22referer%22%3A%22https%3A%2F%2Fsite%2Fwatch%3Fv%3D1%22%2C%22origin%22%3A%22https%3A%2F%2Fsite%22%7D"

-----------------------------------------------------------------------------
(* Manifest expansion: manifest responses observed on one tab, the fetches *)
(* they start settling with a body or failing, and the tab closing in      *)
(* between.                                                                *)

HlsTab == 1

HlsRequests ==
  { Details(HlsTab, "https://h/p/master.m3u8", "application/vnd.apple.mpegurl", Undefined),
    Details(HlsTab, "https://h/live", "application/x-mpegURL", "300") }

MasterBody ==
  "#EXTM3U\n#EXT-X-STREAM-INF:BANDWIDTH=2,RESOLUTION=1280x720\nhi.m3u8\n"
    \o "#EXT-X-STREAM-INF:BANDWIDTH=1,RESOLUTION=640x360\nhttps://c/lo.m3u8\n"

\* what a failed expansion resumes with: the fetch rejected, or a body that
\* is no manifest (empty, an error page, stream blocks without the
\* signature), or a manifest cut off before the first variant's URI
FailedBodies ==
  { NetworkError, "", "<html>404 master.m3u8</html>",
    "#EXT-X-STREAM-INF:BANDWIDTH=1,RESOLUTION=640x360\nlo.m3u8\n",
    "#EXTM3U\n#EXT-X-STREAM-INF:BANDWIDTH=2,RESOLU" }

HlsBodies == FailedBodies \cup {MasterBody, "#EXTM3U\n#EXTINF:4,\nseg-1.ts\n"}

NextHls ==
  \/ \E details \in HlsRequests : WebRequestCompleted(details)
  \/ \E f \in fetches, text \in HlsBodies : FetchSettled(f, text)
  \/ TabRemoved(HlsTab)

SpecHls == Init /\ [][NextHls]_vars

\* C19: a manifest expansion that resumes with a failed fetch or with a body
\* that is no manifest or is cut off adds no variant and leaves the registry
\* as it was, the master entry included; and the handler that started the
\* expansion has merged the master candidate whatever the expansion does
\* later.
C19_FailedExpansionHarmless ==
  [][/\ \A f \in fetches, text \in FailedBodies :
          FetchSettled(f, text) => output'.value = <<>> /\ videosByTab' = videosByTab
     /\ \A details \in HlsRequests :
          WebRequestCompleted(details) =>
            /\ [url |-> details.url, tabId |-> details.tabId] \in fetches'
            /\ MapHas(videosByTab'[details.tabId], details.url)
            /\ MapGet(videosByTab'[details.tabId], details.url).source = "hls"]_vars

\* the fetch of the master index has failed and the master candidate is in
\* the registry of its tab, a playlist of source hls
C19_Witness ==
  /\ input = [fn |-> "fetchAndParseM3U8", url |-> "https://h/p/master.m3u8",
              tabId |-> HlsTab, text |-> NetworkError]
  /\ output = [done |-> TRUE, value |-> <<>>]
  /\ HlsTab \in DOMAIN videosByTab
  /\ MapKeys(videosByTab[HlsTab]) = {"https://h/p/master.m3u8"}
  /\ MapGet(videosByTab[HlsTab], "https://h/p/master.m3u8").source = "hls"
  /\ MapGet(videosByTab[HlsTab], "https://h/p/master.m3u8").playlist = True

-----------------------------------------------------------------------------
(* The classifier and the declared size                                    *)

SegmentByExtensionOnly(url, contentType) ==
  /\ SEGMENT_EXTENSIONS(ToLowerCase(url))
  /\ ~VIDEO_EXTENSIONS(ToLowerCase(url))
  /\ ~(Truthy(contentType) /\ VIDEO_CONTENT_TYPES(contentType))

-----------------------------------------------------------------------------
(* The priority table and the tags the adapters attach                     *)

\* the source tags of the adapters: the watcher's parsers, the content
\* script's scans (checkYouTube's "youtube" among them) and the background
\* listener
AdapterTags ==
  { "instagram", "twitter", "vimeo", "tiktok", "instagram-json", "api", "hls",
    "og:video", "dom-playing", "dom", "webRequest", "youtube" }

\* SOURCE_PRIORITY has the key: every priority in the table is positive, so
\* the lookup gives 0 only where the table has no such key and `|| 0` applies
HasPriorityEntry(source) == SOURCE_PRIORITY(source) # 0

\* C22: whatever tag of an adapter a candidate is scored with, the priority
\* table has an entry for it, and the entry is not negative.
C22_PriorityTableTotal ==
  (input.fn = "scoreVideo" /\ output.done /\ input.source \in AdapterTags) =>
    HasPriorityEntry(input.source) /\ SOURCE_PRIORITY(input.source) >= 0

-----------------------------------------------------------------------------
(* The variants manifest expansion merges                                  *)

IsAbsoluteUrl(url) == StartsWith(url, "http://") \/ StartsWith(url, "https://")

\* C23: every variant a settled manifest fetch has added, and with it every
\* key of the registry, is an absolute URL.
C23_VariantUrlsAbsolute ==
  /\ (input.fn = "fetchAndParseM3U8" /\ output.done) =>
       \A i \in 1..Len(output.value) : IsAbsoluteUrl(output.value[i].url)
  /\ \A tabId \in DOMAIN videosByTab :
       \A key \in MapKeys(videosByTab[tabId]) : IsAbsoluteUrl(key)

-----------------------------------------------------------------------------
(* Manifest expansion and invalidation                                     *)

\* C25: a manifest fetch that settles for a tab whose slot has been removed
\* since the fetch was started (the handler that starts a fetch creates the
\* slot) merges nothing for that tab: the slot stays removed.
C25_NoWriteAfterDestroy ==
  [][\A f \in fetches, text \in HlsBodies :
       (FetchSettled(f, text) /\ f.tabId \notin DOMAIN videosByTab) =>
         f.tabId \notin DOMAIN videosByTab']_vars

-----------------------------------------------------------------------------
(* Merging into an entry that is past its TTL                              *)

\* C27: the entry a network observation has just been merged into is within
\* its TTL at the time of the merge, so that a query made then keeps it.
C27_MergedIsFresh ==
  [][\A details \in WebRequests :
       (/\ WebRequestCompleted(details)
        /\ details.tabId \in DOMAIN videosByTab'
        /\ MapHas(videosByTab'[details.tabId], cleanByteRangeUrl(details.url))) =>
         ~IsExpired(MapGet(videosByTab'[details.tabId], cleanByteRangeUrl(details.url)), now)]_vars

-----------------------------------------------------------------------------
(* The page pipeline: a parser of the watcher dispatches candidates, the   *)
(* content script relays each event as ADD_VIDEO, the background merges it *)

\* document.location.href and .origin of the page of a tab at its n-th
\* location
PageHref(n) == "https://site/watch?v=" \o ToString(n)

PageOrigin == "https://site"

\* the content script's listener and sendVideo, then the ADD_VIDEO handler,
\* for the outcome r of dispatchVideo(candidate)
Relay(store, tabId, candidate, r, t) ==
  IF ~r.dispatched THEN store
  ELSE onAddVideo(store,
         Message(NoTab, r.video.url, candidate.source, candidate.quality,
                 candidate.title, candidate.playlist),
         tabId, t)

DispatchOne(state, tabId, candidate, r, t) ==
  [store |-> Relay(state.store, tabId, candidate, r, t), found |-> r.found,
   sent |-> IF r.dispatched THEN state.sent \cup {r.video.url} ELSE state.sent]

\* the dispatchVideo calls of one parser run, in order; state is the
\* registry, foundVideos and the URLs sent so far
RECURSIVE DispatchAll(_, _, _, _, _)
DispatchAll(state, tabId, candidates, referer, t) ==
  IF candidates = <<>> THEN state
  ELSE DispatchAll(
         DispatchOne(state, tabId, Head(candidates),
                     dispatchVideo(Head(candidates).url, state.found, referer, PageOrigin), t),
         tabId, Tail(candidates), referer, t)

\* what HLSParser.onLoad hands to dispatchVideo for a body loaded from url
HlsCandidates(responseText, url, title) ==
  [i \in 1..Len(HLSParserOnLoad(responseText, url)) |->
     [url |-> HLSParserOnLoad(responseText, url)[i].url,
      quality |-> HLSParserOnLoad(responseText, url)[i].quality,
      source |-> "hls", title |-> title, playlist |-> True]]

\* a parser of the watcher in the page of tab t has run on a response and
\* dispatched its candidates, and the background has handled the messages
PageDispatch(t, candidates) ==
  /\ videosByTab' =
       DispatchAll([store |-> videosByTab, found |-> foundVideos[t], sent |-> {}],
                   t, candidates, PageHref(location[t]), now).store
  /\ foundVideos' = [foundVideos EXCEPT ![t] =
       DispatchAll([store |-> videosByTab, found |-> foundVideos[t], sent |-> {}],
                   t, candidates, PageHref(location[t]), now).found]
  /\ stale' = StaleAfter(videosByTab', t,
       DispatchAll([store |-> videosByTab, found |-> foundVideos[t], sent |-> {}],
                   t, candidates, PageHref(location[t]), now).sent)
  /\ response' = NoResponse
  /\ UNCHANGED <<now, fetches, location, lastUrl, clearMsgs, CallVars>>

-----------------------------------------------------------------------------
(* One page and the background: a media file and a master index that the   *)
(* network adapter observes and the page's parsers see as well.            *)

MediaUrl == "https://cdn/v.mp4"

ApiCandidates ==
  <<[url |-> MediaUrl, quality |-> Undefined, source |-> "api", title |-> "T",
     playlist |-> Undefined]>>

FourStreamBody ==
  "#EXTM3U\n#EXT-X-STREAM-INF:BANDWIDTH=4,RESOLUTION=1920x1080\nv1080.m3u8\n"
    \o "#EXT-X-STREAM-INF:BANDWIDTH=3,RESOLUTION=1280x720\nv720.m3u8\n"
    \o "#EXT-X-STREAM-INF:BANDWIDTH=2,RESOLUTION=854x480\nv480.m3u8\n"
    \o "#EXT-X-STREAM-INF:BANDWIDTH=1,RESOLUTION=640x360\nv360.m3u8\n"

MasterBodies == {FourStreamBody}

NextPage ==
  \/ WebRequestCompleted(Details(HlsTab, MediaUrl, "video/mp4", "8000000"))
  \/ WebRequestCompleted(Details(HlsTab, ManifestUrl, "application/vnd.apple.mpegurl", Undefined))
  \/ \E f \in fetches, text \in MasterBodies : FetchSettled(f, text)
  \/ PageDispatch(HlsTab, ApiCandidates)
  \/ \E text \in MasterBodies : PageDispatch(HlsTab, HlsCandidates(text, ManifestUrl, "T"))

SpecPage == Init /\ [][NextPage]_vars

\* the keys a step adds to the registry of the page's tab
AddedKeys == Keys(videosByTab', HlsTab) \ Keys(videosByTab, HlsTab)

\* C24: one master index, parsed by the background after its fetch or by
\* the page's HLS parser, adds at most MAX_VARIANTS entries to the registry
\* of the tab, each of source hls.
C24_AtMostThreeVariants ==
  [][/\ \A f \in fetches, text \in MasterBodies :
          FetchSettled(f, text) =>
            /\ Cardinality(AddedKeys) <= MAX_VARIANTS
            /\ \A key \in AddedKeys : MapGet(videosByTab'[HlsTab], key).source = "hls"
     /\ \A text \in MasterBodies :
          PageDispatch(HlsTab, HlsCandidates(text, ManifestUrl, "T")) =>
            /\ Cardinality(AddedKeys) <= MAX_VARIANTS
            /\ \A key \in AddedKeys : MapGet(videosByTab'[HlsTab], key).source = "hls"]_vars

\* a key without the headers parameter the page adapter stamps into it
WithoutHeaders(key) == UrlBefore(UrlBefore(key, "?headers="), "&headers=")

\* C28: the registry of the tab holds no two entries for one resource: no
\* two keys that differ only in the embedded headers parameter.
C28_OneEntryPerResource ==
  \A k1, k2 \in Keys(videosByTab, HlsTab) :
    WithoutHeaders(k1) = WithoutHeaders(k2) => k1 = k2

-----------------------------------------------------------------------------
(* The poll tick after an in-page navigation: the adapters report only     *)
(* between a change of location and the tick that notices it.              *)

NextPoll ==
  \/ \E t \in Tabs : NavigateInPage(t)
  \/ \E t \in Tabs : location[t] # lastUrl[t] /\ PageDispatch(t, ApiCandidates)
  \/ \E t \in Tabs :
       location[t] # lastUrl[t] /\ WebRequestCompleted(Details(t, "w.mp4", "video/mp4", "8000000"))
  \/ \E t \in Tabs : CheckUrlChange(t)
  \/ \E t \in Tabs : DeliverClearVideos(t)

SpecPoll == Init /\ [][NextPoll]_vars

\* C26: the clear a poll tick has triggered leaves in the registry the
\* entries merged for the tab's present location (those not held from an
\* earlier location), and the tick leaves foundVideos empty, so that the
\* page can report them again.
C26_ClearKeepsNewLocation ==
  [][\A t \in Tabs :
       /\ DeliverClearVideos(t) =>
            (Keys(videosByTab, t) \ stale[t]) \subseteq Keys(videosByTab', t)
       /\ CheckUrlChange(t) => foundVideos'[t] = {}]_vars

-----------------------------------------------------------------------------
(* Reporting once between two navigations                                  *)

\* C29: a dispatchVideo call made while foundVideos is not empty dispatches
\* nothing. (foundVideos is filled by a dispatch only, and the call that
\* follows is either for the same candidate URL or for the URL that was
\* dispatched.)
C29_DispatchedOnce ==
  (input.fn = "dispatchVideo" /\ output.done /\ input.found # {}) =>
    ~output.value.dispatched

====
